---- MODULE Spec2Model ----
(***************************************************************************)
(* A model of the saved-object repository (SavedObjectsRepository) and of  *)
(* the document store it talks to.  Every repository call is split at its *)
(* await points: a call with a preflight read is two steps (the read, then *)
(* the write), every other call is one step.  Several callers run          *)
(* concurrently; the store's (sequence number, primary term) pair is the   *)
(* only concurrency primitive.                                             *)
(***************************************************************************)
EXTENDS Integers, Sequences, FiniteSets, TLC

VARIABLES
  docs,      \* the index: raw id -> stored document (_source, _seq_no, _primary_term)
  nextSeq,   \* the sequence number the store assigns to its next write
  call,      \* per caller: the call in flight after its preflight read, or Idle
  res        \* per caller: what its last completed call returned or threw

vars == <<docs, nextSeq, call, res>>

----------------------------------------------------------------------------
(* Bounds of the model                                                      *)

\* Writes the store accepts before the model stops issuing new ones.
MaxSeq == 3
\* Longest input array of a bulk call.
MaxBulk == 2

----------------------------------------------------------------------------
(* Values                                                                   *)

\* JavaScript's undefined, for a string, a list, a version token, an attribute
\* bag, a document, a returned object and a version precondition.
Undefined == "undefined"
UndefinedList == <<Undefined>>
NoVersion == <<>>
NoAttrs == [undefined |-> Undefined]
NoDoc == [found |-> FALSE]
NoObj == [none |-> TRUE]
NoVP == [none |-> TRUE]
Idle == [op |-> "idle"]
NoRes == [op |-> "none"]

ALL_NAMESPACES_STRING == "*"
DEFAULT_NAMESPACE_STRING == "default"
LEGACY_URL_ALIAS_TYPE == "legacy-url-alias"
CORE_USAGE_STATS_TYPE == "core-usage-stats"
CORE_USAGE_STATS_ID == "core-usage-stats"

Procs == {"p1", "p2", "p3"}

\* The registered types, one per namespace isolation mode, and a registered
\* type that is hidden from this repository (not in allowedTypes).
TSingle == "dashboard"
TAgnostic == "globaltype"
TIsolated == "isolatedtype"
TShared == "sharedtype"
THidden == "hiddentype"

\* A mutation of the allowed set that leaves the shareable type out.
allowedTypesWithoutShared == {TSingle, TAgnostic, TIsolated}

allowedTypes == {TSingle, TAgnostic, TIsolated, TShared}

Ids == {"1", "2"}

\* Attribute bags.  A bag with the key "invalid" stands for a document the
\* type's schema validation (done by the migrator) rejects.
AttrA == [title |-> "A"]
AttrB == [title |-> "B"]
AttrBad == [invalid |-> "x"]

----------------------------------------------------------------------------
(* Type registry                                                            *)

namespaceType(type) ==
  CASE type = TSingle -> "single"
    [] type = TAgnostic -> "agnostic"
    [] type = TIsolated -> "multiple-isolated"
    [] type = TShared -> "multiple"
    [] type = THidden -> "single"
    [] OTHER -> "agnostic"   \* legacy-url-alias, core-usage-stats

isSingleNamespace(type) == namespaceType(type) = "single"
isNamespaceAgnostic(type) == namespaceType(type) = "agnostic"
isMultiNamespace(type) == namespaceType(type) \in {"multiple", "multiple-isolated"}
isShareable(type) == namespaceType(type) = "multiple"

----------------------------------------------------------------------------
(* Namespace utilities                                                      *)

\* SavedObjectsUtils.namespaceIdToString: undefined -> 'default'
namespaceIdToString(namespace) ==
  IF namespace = Undefined THEN DEFAULT_NAMESPACE_STRING ELSE namespace

\* SavedObjectsUtils.namespaceStringToId: 'default' -> undefined
namespaceStringToId(namespace) ==
  IF namespace = DEFAULT_NAMESPACE_STRING THEN Undefined ELSE namespace

\* normalizeNamespace throws BadRequest for '*'
normalizeNamespaceThrows(namespace) == namespace = ALL_NAMESPACES_STRING

normalizeNamespace(namespace) ==
  IF namespace = Undefined THEN namespace ELSE namespaceStringToId(namespace)

\* F applied to the value of x.
With(x, F(_)) == CHOOSE v \in {F(y) : y \in {x}} : TRUE

Includes(seq, x) == \E i \in 1..Len(seq) : seq[i] = x

\* A mutation that accepts every initialNamespaces.
validateInitialNamespacesSkipped(type, initialNamespaces) == Undefined

\* The error validateInitialNamespaces throws, or Undefined.
validateInitialNamespaces(type, initialNamespaces) ==
  IF initialNamespaces = UndefinedList THEN Undefined
  ELSE IF isNamespaceAgnostic(type) THEN "BadRequest"
  ELSE IF Len(initialNamespaces) = 0 THEN "BadRequest"
  ELSE IF /\ ~isShareable(type)
          /\ (Len(initialNamespaces) > 1 \/ Includes(initialNamespaces, ALL_NAMESPACES_STRING))
       THEN "BadRequest"
  ELSE Undefined

\* getSavedObjectNamespaces(namespace, document)
getSavedObjectNamespaces(namespace, document) ==
  IF document.found THEN document.source.namespaces
  ELSE <<namespaceIdToString(namespace)>>

----------------------------------------------------------------------------
(* Serializer and version codec                                             *)

generateRawId(namespace, type, id) ==
  (IF namespace # Undefined /\ isSingleNamespace(type) THEN namespace \o ":" ELSE "")
    \o type \o ":" \o id

\* A mutation of trimIdPrefix that strips the type alone.
trimIdPrefixOfType(namespace, type, id) ==
  LET prefix == type \o ":" IN
  IF Len(id) >= Len(prefix) /\ SubSeq(id, 1, Len(prefix)) = prefix
  THEN SubSeq(id, Len(prefix) + 1, Len(id))
  ELSE id

\* trimIdPrefix: the raw id without the prefix generateRawId put before the
\* object's id; a raw id that does not start with it is left alone.
trimIdPrefix(namespace, type, id) ==
  LET prefix == (IF namespace # Undefined /\ isSingleNamespace(type)
                 THEN namespace \o ":" ELSE "") \o type \o ":"
  IN IF Len(id) >= Len(prefix) /\ SubSeq(id, 1, Len(prefix)) = prefix
     THEN SubSeq(id, Len(prefix) + 1, Len(id))
     ELSE id

generateRawLegacyUrlAliasId(namespace, type, id) ==
  LEGACY_URL_ALIAS_TYPE \o ":" \o namespace \o ":" \o type \o ":" \o id

\* savedObjectToRaw: the namespace is kept only for a single-namespace type,
\* the namespaces list only for a multi-namespace type.
savedObjectToRaw(so) ==
  [found |-> TRUE, id |-> generateRawId(so.namespace, so.type, so.id),
   source |->
     [type |-> so.type,
      attributes |-> so.attributes,
      namespace |-> IF so.namespace # Undefined /\ isSingleNamespace(so.type)
                    THEN so.namespace ELSE Undefined,
      namespaces |-> IF so.namespaces # UndefinedList /\ isMultiNamespace(so.type)
                     THEN so.namespaces ELSE UndefinedList]
       @@ (IF "references" \in DOMAIN so
           THEN [references |-> so.references] ELSE <<>>)]

encodeVersion(seqNo, primaryTerm) == <<seqNo, primaryTerm>>

encodeHitVersion(doc) == encodeVersion(doc.seq_no, doc.primary_term)

decodeRequestVersion(version) ==
  [if_seq_no |-> version[1], if_primary_term |-> version[2]]

\* getExpectedVersionProperties(version, document): the caller's version wins,
\* else the preflight document's, else no precondition.
getExpectedVersionProperties(version, document) ==
  IF version # NoVersion THEN decodeRequestVersion(version)
  ELSE IF document.found
    THEN [if_seq_no |-> document.seq_no, if_primary_term |-> document.primary_term]
  ELSE NoVP

\* rawDocExistsInNamespace(registry, raw, namespace)
rawDocExistsInNamespace(raw, namespace) ==
  IF ~isMultiNamespace(raw.source.type) THEN TRUE
  ELSE IF raw.source.namespaces = UndefinedList THEN FALSE
  ELSE \/ Includes(raw.source.namespaces, namespaceIdToString(namespace))
       \/ Includes(raw.source.namespaces, ALL_NAMESPACES_STRING)

\* The references of a document: _source.references || []
sourceReferences(source) ==
  IF "references" \in DOMAIN source THEN source.references ELSE <<>>

\* getSavedObjectFromSource(registry, type, id, doc)
getSavedObjectFromSource(type, id, doc) ==
  [id |-> id,
   type |-> type,
   namespaces |->
     IF isNamespaceAgnostic(type) THEN UndefinedList
     ELSE IF doc.source.namespaces # UndefinedList THEN doc.source.namespaces
     ELSE <<namespaceIdToString(doc.source.namespace)>>,
   version |-> encodeHitVersion(doc),
   attributes |-> doc.source.attributes,
   references |-> sourceReferences(doc.source)]

\* A mutation of _rawToSavedObject that returns the object without its
\* references.
rawToSavedObjectWithoutReferences(id, source, seqNo, primaryTerm) ==
  [id |-> id,
   type |-> source.type,
   namespaces |-> <<namespaceIdToString(source.namespace)>>,
   version |-> encodeVersion(seqNo, primaryTerm),
   attributes |-> source.attributes,
   references |-> <<>>]

\* _rawToSavedObject(raw) for the document just written by create / bulkCreate
rawToSavedObject(id, source, seqNo, primaryTerm) ==
  [id |-> id,
   type |-> source.type,
   namespaces |->
     IF isSingleNamespace(source.type) THEN <<namespaceIdToString(source.namespace)>>
     ELSE source.namespaces,
   version |-> encodeVersion(seqNo, primaryTerm),
   attributes |-> source.attributes,
   references |-> sourceReferences(source)]

\* The migrator validates the document and throws on one it rejects.
migrateDocumentThrows(attributes) == "invalid" \in DOMAIN attributes

----------------------------------------------------------------------------
(* The document store                                                       *)

\* The index does not exist as long as the store has assigned no sequence
\* number; a read of it is answered 404.
IndexAbsent(seq) == seq = 0

EsGet(d, id) == IF id \in DOMAIN d THEN d[id] ELSE NoDoc

Stored(source, seqNo) ==
  [found |-> TRUE, source |-> source, seq_no |-> seqNo, primary_term |-> 1]

Put(d, id, doc) == [k \in DOMAIN d \cup {id} |-> IF k = id THEN doc ELSE d[k]]

Remove(d, id) == [k \in DOMAIN d \ {id} |-> d[k]]

\* The store's compare-and-set precondition (if_seq_no / if_primary_term).
VersionMatches(doc, vp) ==
  \/ vp = NoVP
  \/ /\ doc.found
     /\ doc.seq_no = vp.if_seq_no
     /\ doc.primary_term = vp.if_primary_term

\* Partial-document merge of an update: given keys replace, others stay.
MergeAttributes(old, new) ==
  [k \in DOMAIN old \cup DOMAIN new |-> IF k \in DOMAIN new THEN new[k] ELSE old[k]]

\* Each store write returns [status, docs, seq]: the HTTP status, the index
\* after the write, and the next sequence number.
EsIndex(d, seq, id, source, vp) ==
  IF ~VersionMatches(EsGet(d, id), vp)
  THEN [status |-> 409, docs |-> d, seq |-> seq]
  ELSE [status |-> 200, docs |-> Put(d, id, Stored(source, seq)), seq |-> seq + 1]

EsCreate(d, seq, id, source) ==
  IF EsGet(d, id).found
  THEN [status |-> 409, docs |-> d, seq |-> seq]
  ELSE [status |-> 201, docs |-> Put(d, id, Stored(source, seq)), seq |-> seq + 1]

\* update with a partial document and an optional upsert document; the
\* request requires the index to exist (require_alias) and creates none.
EsUpdate(d, seq, id, attributes, upsert, vp) ==
  LET cur == EsGet(d, id) IN
  IF ~cur.found
  THEN IF upsert = NoDoc \/ IndexAbsent(seq)
       THEN [status |-> 404, docs |-> d, seq |-> seq]
       ELSE IF vp # NoVP THEN [status |-> 409, docs |-> d, seq |-> seq]
       ELSE [status |-> 201, docs |-> Put(d, id, Stored(upsert.source, seq)),
             seq |-> seq + 1]
  ELSE IF ~VersionMatches(cur, vp) THEN [status |-> 409, docs |-> d, seq |-> seq]
  ELSE [status |-> 200,
        docs |-> Put(d, id,
                   Stored([cur.source EXCEPT
                             !.attributes = MergeAttributes(@, attributes)], seq)),
        seq |-> seq + 1]

EsDelete(d, seq, id, vp) ==
  LET cur == EsGet(d, id) IN
  IF ~cur.found THEN [status |-> 404, docs |-> d, seq |-> seq]
  ELSE IF ~VersionMatches(cur, vp) THEN [status |-> 409, docs |-> d, seq |-> seq]
  ELSE [status |-> 200, docs |-> Remove(d, id), seq |-> seq + 1]

----------------------------------------------------------------------------
(* Bookkeeping of a call                                                    *)

\* The raw ids whose stored document differs between two indices.
Touched(d1, d2) ==
  {k \in DOMAIN d1 \cup DOMAIN d2 : EsGet(d1, k) # EsGet(d2, k)}

\* What a completed call leaves in res: its arguments, the error kind it
\* threw (or Undefined), the value it returned, and a record of its last
\* step: the index and the target document before and after it, the raw ids
\* it changed, and the numbers of store reads and writes the whole call issued.
Result(op, args, err, obj, rawId, d1, d2, reads, writes) ==
  [op |-> op, args |-> args, err |-> err, obj |-> obj, rawId |-> rawId,
   pre |-> IF rawId = Undefined THEN NoDoc ELSE EsGet(d1, rawId),
   post |-> IF rawId = Undefined THEN NoDoc ELSE EsGet(d2, rawId),
   before |-> d1, after |-> d2,
   touched |-> Touched(d1, d2), reads |-> reads, writes |-> writes]

\* The call of p ends with result r, the index becoming d2.
Finish(p, r, d2, s2) ==
  /\ res' = [res EXCEPT ![p] = r]
  /\ call' = [call EXCEPT ![p] = Idle]
  /\ docs' = d2
  /\ nextSeq' = s2

\* The call of p throws err without having changed the index.
Throw(p, op, args, err, rawId, reads, writes) ==
  Finish(p, Result(op, args, err, NoObj, rawId, docs, docs, reads, writes),
         docs, nextSeq)

\* The call of p awaits its next store request with c as its local state.
Pend(p, c) ==
  /\ call' = [call EXCEPT ![p] = c]
  /\ res' = [res EXCEPT ![p] = NoRes]
  /\ UNCHANGED <<docs, nextSeq>>

\* The caller of p has taken the result of its call.
dropResult(p) ==
  /\ call[p] = Idle
  /\ res[p] # NoRes
  /\ res' = [res EXCEPT ![p] = NoRes]
  /\ UNCHANGED <<docs, nextSeq, call>>

\* decorateEsError: how a store status surfaces to the caller.
EsErrorKind(status) ==
  CASE status = 409 -> "Conflict"
    [] status = 404 -> "NotFound"
    [] OTHER -> "GeneralError"

----------------------------------------------------------------------------
(* Preflight reads for multi-namespace types                                *)

\* A mutation of preflightGetNamespaces without the check of the namespace.
preflightGetNamespacesUnchecked(d, type, id, namespace) ==
  [err |-> Undefined,
   namespaces |-> getSavedObjectNamespaces(
                    namespace, EsGet(d, generateRawId(Undefined, type, id)))]

\* preflightGetNamespaces: [err, namespaces]
preflightGetNamespaces(d, type, id, namespace) ==
  LET body == EsGet(d, generateRawId(Undefined, type, id)) IN
  IF body.found
  THEN IF ~rawDocExistsInNamespace(body, namespace)
       THEN [err |-> "Conflict", namespaces |-> UndefinedList]
       ELSE [err |-> Undefined, namespaces |-> getSavedObjectNamespaces(namespace, body)]
  ELSE [err |-> Undefined, namespaces |-> getSavedObjectNamespaces(namespace, NoDoc)]

\* A mutation of preflightCheckIncludesNamespace that lets an absent object
\* pass.
preflightCheckIncludesNamespaceIfFound(d, type, id, namespace) ==
  LET body == EsGet(d, generateRawId(Undefined, type, id)) IN
  IF body.found /\ ~rawDocExistsInNamespace(body, namespace)
  THEN [err |-> "NotFound", body |-> NoDoc]
  ELSE [err |-> Undefined, body |-> body]

\* preflightCheckIncludesNamespace: [err, body]
preflightCheckIncludesNamespace(d, type, id, namespace) ==
  LET body == EsGet(d, generateRawId(Undefined, type, id)) IN
  IF ~body.found \/ ~rawDocExistsInNamespace(body, namespace)
  THEN [err |-> "NotFound", body |-> NoDoc]
  ELSE [err |-> Undefined, body |-> body]

----------------------------------------------------------------------------
(* create                                                                   *)

\* The write of create, after the namespaces of the document are decided.
CreateWrite(p, args, savedObjectNamespace, savedObjectNamespaces, reads) ==
  IF migrateDocumentThrows(args.attributes)
  THEN Throw(p, "create", args, "MigrationError", Undefined, reads, 0)
  ELSE
    LET raw == savedObjectToRaw([id |-> args.id, type |-> args.type,
                                 namespace |-> savedObjectNamespace,
                                 namespaces |-> savedObjectNamespaces,
                                 attributes |-> args.attributes,
                                 references |-> args.references])
        vp == IF args.overwrite /\ args.version # NoVersion
              THEN decodeRequestVersion(args.version) ELSE NoVP
        r == IF args.overwrite
             THEN EsIndex(docs, nextSeq, raw.id, raw.source, vp)
             ELSE EsCreate(docs, nextSeq, raw.id, raw.source)
    IN IF r.status >= 400
       THEN Throw(p, "create", args, EsErrorKind(r.status), raw.id, reads, 1)
       ELSE Finish(p, Result("create", args, Undefined,
                             rawToSavedObject(trimIdPrefix(raw.source.namespace,
                                                           raw.source.type, raw.id),
                                              raw.source, nextSeq, 1),
                             raw.id, docs, r.docs, reads, 1),
                   r.docs, r.seq)

\* create up to its first store request
createObject(p, type, id, attributes, ns, overwrite, version, initialNamespaces, references) ==
  LET args == [type |-> type, id |-> id, attributes |-> attributes, namespace |-> ns,
               overwrite |-> overwrite, version |-> version,
               initialNamespaces |-> initialNamespaces, references |-> references]
      namespace == normalizeNamespace(ns)
  IN
  /\ call[p] = Idle
  /\ nextSeq <= MaxSeq
  /\ IF normalizeNamespaceThrows(ns)
     THEN Throw(p, "create", args, "BadRequest", Undefined, 0, 0)
     ELSE IF validateInitialNamespaces(type, initialNamespaces) # Undefined
     THEN Throw(p, "create", args, "BadRequest", Undefined, 0, 0)
     ELSE IF type \notin allowedTypes
     THEN Throw(p, "create", args, "UnsupportedType", Undefined, 0, 0)
     ELSE IF isSingleNamespace(type)
     THEN CreateWrite(p, args,
                      IF initialNamespaces # UndefinedList THEN initialNamespaces[1]
                      ELSE namespace,
                      UndefinedList, 0)
     ELSE IF isMultiNamespace(type)
     THEN IF overwrite
          THEN LET pre == preflightGetNamespaces(docs, type, id, namespace) IN
               IF pre.err # Undefined
               THEN Throw(p, "create", args, pre.err,
                          generateRawId(Undefined, type, id), 1, 0)
               ELSE Pend(p, [op |-> "create", args |-> args,
                             savedObjectNamespaces |->
                               IF initialNamespaces # UndefinedList
                               THEN initialNamespaces ELSE pre.namespaces])
          ELSE CreateWrite(p, args, Undefined,
                           IF initialNamespaces # UndefinedList THEN initialNamespaces
                           ELSE getSavedObjectNamespaces(namespace, NoDoc), 0)
     ELSE CreateWrite(p, args, Undefined, UndefinedList, 0)

\* create without options.references: references = []
create(p, type, id, attributes, ns, overwrite, version, initialNamespaces) ==
  createObject(p, type, id, attributes, ns, overwrite, version, initialNamespaces,
               <<>>)

\* create after its preflight read
createAfterPreflight(p) ==
  /\ call[p].op = "create"
  /\ CreateWrite(p, call[p].args, Undefined, call[p].savedObjectNamespaces, 1)

----------------------------------------------------------------------------
(* get                                                                      *)

\* A mutation of get that addresses the document without the namespace.
getRawIdWithoutNamespace(namespace, type, id) == generateRawId(Undefined, type, id)

\* The raw id get asks the store for.
getRawId(namespace, type, id) == generateRawId(namespace, type, id)

\* A mutation of get that returns the document whatever its spaces are.
getFromAnyNamespace(p, type, id, ns) ==
  LET args == [type |-> type, id |-> id, namespace |-> ns]
      rawId == getRawId(normalizeNamespace(ns), type, id)
      body == EsGet(docs, rawId)
  IN
  /\ call[p] = Idle
  /\ IF type \notin allowedTypes \/ ~body.found
     THEN Throw(p, "get", args, "NotFound", rawId, 1, 0)
     ELSE Finish(p, Result("get", args, Undefined,
                           getSavedObjectFromSource(type, id, body),
                           rawId, docs, docs, 1, 0),
                 docs, nextSeq)

get(p, type, id, ns) ==
  LET args == [type |-> type, id |-> id, namespace |-> ns]
      namespace == normalizeNamespace(ns)
      rawId == getRawId(namespace, type, id)
      body == EsGet(docs, rawId)
  IN
  /\ call[p] = Idle
  /\ IF type \notin allowedTypes
     THEN Throw(p, "get", args, "NotFound", Undefined, 0, 0)
     ELSE IF normalizeNamespaceThrows(ns)
     THEN Throw(p, "get", args, "BadRequest", Undefined, 0, 0)
     ELSE IF ~body.found \/ ~rawDocExistsInNamespace(body, namespace)
     THEN Throw(p, "get", args, "NotFound", rawId, 1, 0)
     ELSE Finish(p, Result("get", args, Undefined,
                           getSavedObjectFromSource(type, id, body),
                           rawId, docs, docs, 1, 0),
                 docs, nextSeq)

----------------------------------------------------------------------------
(* update                                                                   *)

\* A mutation of update that ignores the version of the preflight document.
updateVersionPropertiesOfCaller(version, preflightResult) ==
  IF version # NoVersion THEN decodeRequestVersion(version) ELSE NoVP

\* A mutation of update that reads the caller's version the wrong way round.
updateVersionPropertiesSwapped(version, preflightResult) ==
  IF version # NoVersion
  THEN [if_seq_no |-> version[2], if_primary_term |-> version[1]]
  ELSE getExpectedVersionProperties(version, preflightResult)

\* A mutation of update that sends its write without a version precondition.
updateVersionPropertiesDropped(version, preflightResult) == NoVP

\* The version precondition of update's write: the caller's version, else the
\* version of the preflight document.
updateVersionProperties(version, preflightResult) ==
  getExpectedVersionProperties(version, preflightResult)

\* A mutation of update that reports every failed write as NotFound.
updateCatchAllNotFound(status) == "NotFound"

\* The catch of update's write: a 404 becomes the generic NotFound, any other
\* error is rethrown as the client decorated it.
updateCatch(status) ==
  IF status = 404 THEN "NotFound" ELSE EsErrorKind(status)

\* The write of update; preflightResult is the preflight document or Undefined.
UpdateWrite(p, args, preflightResult, reads) ==
  LET type == args.type
      namespace == normalizeNamespace(args.namespace)
      rawId == generateRawId(namespace, type, args.id)
      \* the namespaces of the upsert document (a second preflight read for a
      \* multi-namespace type, issued right before the write)
      upsertPre == IF args.upsert # NoAttrs /\ isMultiNamespace(type)
                   THEN preflightGetNamespaces(docs, type, args.id, namespace)
                   ELSE [err |-> Undefined, namespaces |-> UndefinedList]
      reads2 == IF args.upsert # NoAttrs /\ isMultiNamespace(type)
                THEN reads + 1 ELSE reads
  IN
  IF upsertPre.err # Undefined
  THEN Throw(p, "update", args, upsertPre.err, rawId, reads2, 0)
  ELSE IF args.upsert # NoAttrs /\ migrateDocumentThrows(args.upsert)
  THEN Throw(p, "update", args, "MigrationError", rawId, reads2, 0)
  ELSE
    LET rawUpsert ==
          IF args.upsert = NoAttrs THEN NoDoc
          ELSE savedObjectToRaw(
                 [id |-> args.id, type |-> type,
                  namespace |-> IF isSingleNamespace(type) /\ namespace # Undefined
                                THEN namespace ELSE Undefined,
                  namespaces |-> upsertPre.namespaces,
                  attributes |-> args.upsert])
        r == EsUpdate(docs, nextSeq, rawId, args.attributes, rawUpsert,
                      updateVersionProperties(args.version, preflightResult))
        body == EsGet(r.docs, rawId)
    IN IF r.status >= 400
       THEN Throw(p, "update", args, updateCatch(r.status), rawId, reads2, 1)
       ELSE Finish(p, Result("update", args, Undefined,
                             [id |-> args.id, type |-> type,
                              version |-> encodeHitVersion(body),
                              namespaces |->
                                IF isNamespaceAgnostic(type) THEN <<>>
                                ELSE IF body.source.namespaces # UndefinedList
                                THEN body.source.namespaces
                                ELSE <<namespaceIdToString(body.source.namespace)>>,
                              attributes |-> args.attributes],
                             rawId, docs, r.docs, reads2, 1),
                   r.docs, r.seq)

update(p, type, id, attributes, ns, version, upsert) ==
  LET args == [type |-> type, id |-> id, attributes |-> attributes, namespace |-> ns,
               version |-> version, upsert |-> upsert]
      namespace == normalizeNamespace(ns)
  IN
  /\ call[p] = Idle
  /\ nextSeq <= MaxSeq
  /\ IF type \notin allowedTypes
     THEN Throw(p, "update", args, "NotFound", Undefined, 0, 0)
     ELSE IF normalizeNamespaceThrows(ns)
     THEN Throw(p, "update", args, "BadRequest", Undefined, 0, 0)
     ELSE IF isMultiNamespace(type)
     THEN LET pre == preflightCheckIncludesNamespace(docs, type, id, namespace) IN
          IF pre.err # Undefined
          THEN Throw(p, "update", args, pre.err,
                     generateRawId(Undefined, type, id), 1, 0)
          ELSE Pend(p, [op |-> "update", args |-> args, preflightResult |-> pre.body])
     ELSE UpdateWrite(p, args, NoDoc, 0)

updateAfterPreflight(p) ==
  /\ call[p].op = "update"
  /\ UpdateWrite(p, call[p].args, call[p].preflightResult, 1)

----------------------------------------------------------------------------
(* delete                                                                   *)

DeleteWrite(p, args, preflightResult, reads) ==
  LET rawId == generateRawId(normalizeNamespace(args.namespace), args.type, args.id)
      r == EsDelete(docs, nextSeq, rawId,
                    getExpectedVersionProperties(NoVersion, preflightResult))
  IN IF r.status >= 400
     THEN Throw(p, "delete", args, EsErrorKind(r.status), rawId, reads, 1)
     ELSE Finish(p, Result("delete", args, Undefined, NoObj,
                           rawId, docs, r.docs, reads, 1),
                 r.docs, r.seq)

\* A mutation of delete that skips the test of the existing namespaces.
deleteWhereverShared(p, type, id, ns, force) ==
  LET args == [type |-> type, id |-> id, namespace |-> ns, force |-> force]
      pre == preflightCheckIncludesNamespace(docs, type, id, normalizeNamespace(ns))
  IN
  /\ call[p] = Idle
  /\ nextSeq <= MaxSeq
  /\ IF type \notin allowedTypes
     THEN Throw(p, "delete", args, "NotFound", Undefined, 0, 0)
     ELSE IF normalizeNamespaceThrows(ns)
     THEN Throw(p, "delete", args, "BadRequest", Undefined, 0, 0)
     ELSE IF isMultiNamespace(type)
     THEN IF pre.err # Undefined
          THEN Throw(p, "delete", args, pre.err, generateRawId(Undefined, type, id), 1, 0)
          ELSE Pend(p, [op |-> "delete", args |-> args, preflightResult |-> pre.body])
     ELSE DeleteWrite(p, args, NoDoc, 0)

delete(p, type, id, ns, force) ==
  LET args == [type |-> type, id |-> id, namespace |-> ns, force |-> force]
      namespace == normalizeNamespace(ns)
  IN
  /\ call[p] = Idle
  /\ nextSeq <= MaxSeq
  /\ IF type \notin allowedTypes
     THEN Throw(p, "delete", args, "NotFound", Undefined, 0, 0)
     ELSE IF normalizeNamespaceThrows(ns)
     THEN Throw(p, "delete", args, "BadRequest", Undefined, 0, 0)
     ELSE IF isMultiNamespace(type)
     THEN LET pre == preflightCheckIncludesNamespace(docs, type, id, namespace) IN
          IF pre.err # Undefined
          THEN Throw(p, "delete", args, pre.err,
                     generateRawId(Undefined, type, id), 1, 0)
          ELSE LET existingNamespaces ==
                     IF getSavedObjectNamespaces(Undefined, pre.body) = UndefinedList
                     THEN <<>> ELSE getSavedObjectNamespaces(Undefined, pre.body)
               IN IF /\ ~force
                     /\ \/ Len(existingNamespaces) > 1
                        \/ Includes(existingNamespaces, ALL_NAMESPACES_STRING)
                  THEN Throw(p, "delete", args, "BadRequest",
                             generateRawId(Undefined, type, id), 1, 0)
                  ELSE Pend(p, [op |-> "delete", args |-> args,
                                preflightResult |-> pre.body])
     ELSE DeleteWrite(p, args, NoDoc, 0)

deleteAfterPreflight(p) ==
  /\ call[p].op = "delete"
  /\ DeleteWrite(p, call[p].args, call[p].preflightResult, 1)

----------------------------------------------------------------------------
(* incrementCounter                                                         *)

\* A mutation of normalizedCounterFields that keeps the caller's counts
\* under initialize.
normalizedCounterFieldsCounting(counterFields, initialize) ==
  [i \in 1..Len(counterFields) |->
     [fieldName |-> counterFields[i].fieldName,
      incrementBy |-> IF counterFields[i].incrementBy = <<>> THEN 1
                      ELSE counterFields[i].incrementBy[1]]]

\* A counter field is [fieldName, incrementBy], incrementBy being <<n>> or,
\* when the caller gave none, <<>>.
normalizedCounterFields(counterFields, initialize) ==
  [i \in 1..Len(counterFields) |->
     [fieldName |-> counterFields[i].fieldName,
      incrementBy |-> IF initialize THEN 0
                      ELSE IF counterFields[i].incrementBy = <<>> THEN 1
                      ELSE counterFields[i].incrementBy[1]]]

\* normalizedCounterFields.reduce(...): the attributes of the upsert document
RECURSIVE CounterAttributes(_, _)
CounterAttributes(fields, n) ==
  IF n = 0 THEN [k \in {} |-> 0]
  ELSE LET acc == CounterAttributes(fields, n - 1) IN
       [k \in DOMAIN acc \cup {fields[n].fieldName} |->
          IF k = fields[n].fieldName THEN fields[n].incrementBy ELSE acc[k]]

\* The store-side script: add count i to field i, or set it if the field is null.
RECURSIVE CounterScript(_, _, _)
CounterScript(attributes, fields, n) ==
  IF n = 0 THEN attributes
  ELSE LET a == CounterScript(attributes, fields, n - 1)
           f == fields[n].fieldName
       IN [k \in DOMAIN a \cup {f} |->
             IF k = f
             THEN IF f \in DOMAIN a THEN a[f] + fields[n].incrementBy
                  ELSE fields[n].incrementBy
             ELSE a[k]]

\* update with a script and an upsert document, no version precondition
EsScriptedUpdate(d, seq, id, fields, upsert) ==
  LET cur == EsGet(d, id) IN
  IF ~cur.found
  THEN [status |-> 201, docs |-> Put(d, id, Stored(upsert.source, seq)), seq |-> seq + 1]
  ELSE [status |-> 200,
        docs |-> Put(d, id,
                   Stored([cur.source EXCEPT
                             !.attributes = CounterScript(@, fields, Len(fields))], seq)),
        seq |-> seq + 1]

IncrementCounterWrite(p, args, savedObjectNamespaces, reads) ==
  LET type == args.type
      namespace == normalizeNamespace(args.namespace)
      fields == normalizedCounterFields(args.counterFields, args.initialize)
      attributes == MergeAttributes(
                      IF args.upsertAttributes = NoAttrs THEN [k \in {} |-> 0]
                      ELSE args.upsertAttributes,
                      CounterAttributes(fields, Len(fields)))
  IN
  IF migrateDocumentThrows(attributes)
  THEN Throw(p, "incrementCounter", args, "MigrationError", Undefined, reads, 0)
  ELSE
    LET raw == savedObjectToRaw(
                 [id |-> args.id, type |-> type,
                  namespace |-> IF isSingleNamespace(type) /\ namespace # Undefined
                                THEN namespace ELSE Undefined,
                  namespaces |-> savedObjectNamespaces,
                  attributes |-> attributes])
        r == EsScriptedUpdate(docs, nextSeq, raw.id, fields, raw)
        body == EsGet(r.docs, raw.id)
    IN Finish(p, Result("incrementCounter", args, Undefined,
                        [id |-> args.id, type |-> type,
                         namespaces |-> savedObjectNamespaces,
                         version |-> encodeHitVersion(body),
                         attributes |-> body.source.attributes],
                        raw.id, docs, r.docs, reads, 1),
              r.docs, r.seq)

incrementCounter(p, type, id, counterFields, ns, initialize, upsertAttributes) ==
  LET args == [type |-> type, id |-> id, counterFields |-> counterFields,
               namespace |-> ns, initialize |-> initialize,
               upsertAttributes |-> upsertAttributes]
      namespace == normalizeNamespace(ns)
  IN
  /\ call[p] = Idle
  /\ nextSeq <= MaxSeq
  /\ IF type \notin allowedTypes
     THEN Throw(p, "incrementCounter", args, "UnsupportedType", Undefined, 0, 0)
     ELSE IF normalizeNamespaceThrows(ns)
     THEN Throw(p, "incrementCounter", args, "BadRequest", Undefined, 0, 0)
     ELSE IF isMultiNamespace(type)
     THEN LET pre == preflightGetNamespaces(docs, type, id, namespace) IN
          IF pre.err # Undefined
          THEN Throw(p, "incrementCounter", args, pre.err,
                     generateRawId(Undefined, type, id), 1, 0)
          ELSE Pend(p, [op |-> "incrementCounter", args |-> args,
                        savedObjectNamespaces |-> pre.namespaces])
     ELSE IncrementCounterWrite(p, args, UndefinedList, 0)

incrementCounterAfterPreflight(p) ==
  /\ call[p].op = "incrementCounter"
  /\ IncrementCounterWrite(p, call[p].args, call[p].savedObjectNamespaces, 1)

\* The arguments as a caller without types can pass them.  A value is
\* [t, s]: its typeof and its text.  A counterFields value is [isArray,
\* items], an item being [t, name, nameIsString]: a string (its name), an
\* object (its fieldName, which is a string or not), or something else.

\* typeof type === 'string'
typeIsString(type) == type.t = "string"

\* A mutation of isArrayOfCounterFields that looks at the array only.
isArrayOfCounterFieldsUnchecked(counterFields) == counterFields.isArray

isArrayOfCounterFields(counterFields) ==
  /\ counterFields.isArray
  /\ \A i \in 1..Len(counterFields.items) :
       \/ counterFields.items[i].t = "string"
       \/ counterFields.items[i].t = "object" /\ counterFields.items[i].nameIsString

\* The field names incrementCounterInternal reads out of the items: the
\* string itself, or the fieldName of the object; anything else has none
\* and reads as "undefined".
counterFieldsOf(counterFields) ==
  [i \in 1..Len(counterFields.items) |->
     [fieldName |-> IF \/ counterFields.items[i].t = "string"
                       \/ counterFields.items[i].t = "object"
                          /\ counterFields.items[i].nameIsString
                    THEN counterFields.items[i].name ELSE "undefined",
      incrementBy |-> <<>>]]

\* incrementCounter as called: the checks of the arguments, then the call.
incrementCounterChecked(p, type, id, counterFields, ns) ==
  LET input == [input |-> [type |-> type, counterFields |-> counterFields],
                id |-> id, namespace |-> ns]
  IN
  IF ~typeIsString(type)
  THEN /\ call[p] = Idle
       /\ nextSeq <= MaxSeq
       /\ Throw(p, "incrementCounter", input, "Error", Undefined, 0, 0)
  ELSE IF ~isArrayOfCounterFields(counterFields)
  THEN /\ call[p] = Idle
       /\ nextSeq <= MaxSeq
       /\ Throw(p, "incrementCounter", input, "Error", Undefined, 0, 0)
  ELSE incrementCounter(p, type.s, id, counterFieldsOf(counterFields), ns, FALSE, NoAttrs)

----------------------------------------------------------------------------
(* deleteByNamespace                                                        *)

\* removeAll(Collections.singleton(namespace))
RemoveAll(seq, x) == SelectSeq(seq, LAMBDA e : e # x)

\* The documents the sweep's query selects: every document of a type that is
\* not namespace-agnostic and that is in the namespace.
InNamespaceQuery(doc, namespace) ==
  /\ ~isNamespaceAgnostic(doc.source.type)
  /\ IF isMultiNamespace(doc.source.type)
     THEN \/ Includes(doc.source.namespaces, namespace)
          \/ Includes(doc.source.namespaces, ALL_NAMESPACES_STRING)
     ELSE doc.source.namespace = namespaceStringToId(namespace)

\* The script of the sweep applied to the selected documents, one after the
\* other: delete a document without a namespaces list, or whose list becomes
\* empty; else store the shortened list.
RECURSIVE SweepNamespace(_, _, _, _)
SweepNamespace(d, seq, ids, namespace) ==
  IF ids = {} THEN [docs |-> d, seq |-> seq]
  ELSE LET id == CHOOSE k \in ids : TRUE
           src == d[id].source
           left == RemoveAll(src.namespaces, namespace)
       IN IF src.namespaces = UndefinedList \/ left = <<>>
          THEN SweepNamespace(Remove(d, id), seq + 1, ids \ {id}, namespace)
          ELSE SweepNamespace(Put(d, id, Stored([src EXCEPT !.namespaces = left], seq)),
                              seq + 1, ids \ {id}, namespace)

deleteByNamespace(p, namespace) ==
  LET args == [namespace |-> namespace] IN
  /\ call[p] = Idle
  /\ nextSeq <= MaxSeq
  /\ IF namespace = Undefined \/ namespace = ALL_NAMESPACES_STRING
     THEN Throw(p, "deleteByNamespace", args, "TypeError", Undefined, 0, 0)
     ELSE LET r == SweepNamespace(docs, nextSeq,
                     {k \in DOMAIN docs : InNamespaceQuery(docs[k], namespace)},
                     namespace)
          IN Finish(p, Result("deleteByNamespace", args, Undefined, NoObj,
                              Undefined, docs, r.docs, 0, 1),
                    r.docs, r.seq)

----------------------------------------------------------------------------
(* removeReferencesTo                                                       *)

\* A mutation of the script that removes every reference to the type.
referencesWithoutType(references, type, id) ==
  SelectSeq(references, LAMBDA item : item.type # type)

\* The script of the sweep: the references without those to (type, id).
referencesWithout(references, type, id) ==
  SelectSeq(references, LAMBDA item : ~(item.type = type /\ item.id = id))

\* The documents the sweep's query selects: every document of any type that
\* is in the namespace (the default one if none is given) and holds a
\* reference to (type, id).
ReferenceQuery(doc, namespace, type, id) ==
  /\ "references" \in DOMAIN doc.source
  /\ \E i \in 1..Len(doc.source.references) :
       doc.source.references[i].type = type /\ doc.source.references[i].id = id
  /\ \/ isNamespaceAgnostic(doc.source.type)
     \/ InNamespaceQuery(doc, namespaceIdToString(namespace))

\* The script applied to the documents the sweep got to.
RECURSIVE SweepReferences(_, _, _, _, _)
SweepReferences(d, seq, ids, type, id) ==
  IF ids = {} THEN [docs |-> d, seq |-> seq]
  ELSE LET k == CHOOSE x \in ids : TRUE
           src == d[k].source
       IN SweepReferences(
            Put(d, k, Stored([src EXCEPT
                                !.references = referencesWithout(@, type, id)], seq)),
            seq + 1, ids \ {k}, type, id)

\* A mutation of the test of the failures that lets a sweep pass once it
\* has updated something.
removeReferencesToFailsWholly(body) == body.failures > 0 /\ body.updated = 0

\* body.failures?.length
removeReferencesToFails(body) == body.failures > 0

\* removeReferencesTo; the store fails on the documents of failed and
\* reports them as failures, after it has updated the others.
removeReferencesTo(p, type, id, ns, failed) ==
  LET args == [type |-> type, id |-> id, namespace |-> ns]
      selected == {k \in DOMAIN docs : ReferenceQuery(docs[k], ns, type, id)}
      r == SweepReferences(docs, nextSeq, selected \ failed, type, id)
      body == [failures |-> Cardinality(failed),
               updated |-> Cardinality(selected \ failed)]
  IN
  /\ call[p] = Idle
  /\ nextSeq <= MaxSeq
  /\ failed \subseteq selected
  /\ Finish(p, Result("removeReferencesTo", args,
                      IF removeReferencesToFails(body) THEN "Conflict" ELSE Undefined,
                      IF removeReferencesToFails(body) THEN NoObj
                      ELSE [updated |-> body.updated],
                      Undefined, docs, r.docs, 0, 1) @@ [body |-> body],
            r.docs, r.seq)

----------------------------------------------------------------------------
(* updateObjectsSpaces (one object per call)                                *)

\* The namespace list after the change: the existing spaces without the
\* removed ones, followed by the added spaces that were not in it.
UpdatedSpaces(existing, spacesToAdd, spacesToRemove) ==
  SelectSeq(existing, LAMBDA e : ~Includes(spacesToRemove, e))
    \o SelectSeq(spacesToAdd, LAMBDA e : ~Includes(existing, e))

IsUpdateRequired(existing, spacesToAdd, spacesToRemove) ==
  \/ \E i \in 1..Len(spacesToAdd) : ~Includes(existing, spacesToAdd[i])
  \/ \E i \in 1..Len(spacesToRemove) : Includes(existing, spacesToRemove[i])

\* The bulk write: delete the object when no space is left, else store the
\* new list; either under the version read by the preflight.
UpdateObjectsSpacesWrite(p, args, preflightResult) ==
  LET rawId == generateRawId(Undefined, args.type, args.id)
      existing == preflightResult.source.namespaces
      updated == UpdatedSpaces(existing, args.spacesToAdd, args.spacesToRemove)
      vp == getExpectedVersionProperties(NoVersion, preflightResult)
      cur == EsGet(docs, rawId)
      r == IF ~IsUpdateRequired(existing, args.spacesToAdd, args.spacesToRemove)
           THEN [status |-> 200, docs |-> docs, seq |-> nextSeq]
           ELSE IF updated = <<>> THEN EsDelete(docs, nextSeq, rawId, vp)
           ELSE IF ~cur.found THEN [status |-> 404, docs |-> docs, seq |-> nextSeq]
           ELSE EsIndex(docs, nextSeq, rawId,
                        [cur.source EXCEPT !.namespaces = updated], vp)
  IN IF r.status >= 400
     THEN Throw(p, "updateObjectsSpaces", args, EsErrorKind(r.status), rawId, 1, 1)
     ELSE Finish(p, Result("updateObjectsSpaces", args, Undefined,
                           [id |-> args.id, type |-> args.type, spaces |-> updated],
                           rawId, docs, r.docs, 1,
                           IF r.docs = docs THEN 0 ELSE 1),
                 r.docs, r.seq)

updateObjectsSpaces(p, type, id, spacesToAdd, spacesToRemove, ns) ==
  LET args == [type |-> type, id |-> id, spacesToAdd |-> spacesToAdd,
               spacesToRemove |-> spacesToRemove, namespace |-> ns]
      namespace == normalizeNamespace(ns)
      rawId == generateRawId(Undefined, type, id)
      body == EsGet(docs, rawId)
  IN
  /\ call[p] = Idle
  /\ nextSeq <= MaxSeq
  /\ IF normalizeNamespaceThrows(ns)
     THEN Throw(p, "updateObjectsSpaces", args, "BadRequest", Undefined, 0, 0)
     ELSE IF spacesToAdd = <<>> /\ spacesToRemove = <<>>
     THEN Throw(p, "updateObjectsSpaces", args, "BadRequest", Undefined, 0, 0)
     ELSE IF \E i \in 1..Len(spacesToAdd) : Includes(spacesToRemove, spacesToAdd[i])
     THEN Throw(p, "updateObjectsSpaces", args, "BadRequest", Undefined, 0, 0)
     ELSE IF type \notin allowedTypes \/ ~isShareable(type)
     THEN Throw(p, "updateObjectsSpaces", args, "BadRequest", Undefined, 0, 0)
     ELSE IF ~body.found \/ ~rawDocExistsInNamespace(body, namespace)
     THEN Throw(p, "updateObjectsSpaces", args, "NotFound", rawId, 1, 0)
     ELSE Pend(p, [op |-> "updateObjectsSpaces", args |-> args,
                   preflightResult |-> body])

updateObjectsSpacesAfterPreflight(p) ==
  /\ call[p].op = "updateObjectsSpaces"
  /\ UpdateObjectsSpacesWrite(p, call[p].args, call[p].preflightResult)

----------------------------------------------------------------------------
(* Batched store requests                                                   *)

\* mget: one hit per requested raw id, in request order
EsMget(d, ids) == [k \in 1..Len(ids) |-> EsGet(d, ids[k])]

\* One action of a bulk request.
EsBulkAction(d, seq, a) ==
  CASE a.method = "index" -> EsIndex(d, seq, a.id, a.source, a.vp)
    [] a.method = "create" -> EsCreate(d, seq, a.id, a.source)
    [] a.method = "update" -> EsUpdate(d, seq, a.id, a.attributes, NoDoc, a.vp)
    [] OTHER -> EsDelete(d, seq, a.id, a.vp)

\* The answer of a bulk request extended by the outcome r of its next action.
EsBulkAnswer(before, r) ==
  [docs |-> r.docs, seq |-> r.seq,
   items |-> Append(before.items,
                    [status |-> r.status, seq_no |-> before.seq, primary_term |-> 1])]

EsBulkStep(before, a) ==
  EsBulkAnswer(before, EsBulkAction(before.docs, before.seq, a))

\* bulk: the first n actions applied in order; items[k] answers action k.
RECURSIVE EsBulk(_, _, _, _)
EsBulk(d, seq, actions, n) ==
  IF n = 0 THEN [docs |-> d, seq |-> seq, items |-> <<>>]
  ELSE EsBulkStep(EsBulk(d, seq, actions, n - 1), actions[n])

\* getBulkOperationError: the error kind of a bulk item, or Undefined
getBulkOperationError(rawResponse) ==
  IF rawResponse.status < 400 THEN Undefined
  ELSE CASE rawResponse.status = 404 -> "NotFound"
         [] rawResponse.status = 409 -> "Conflict"
         [] OTHER -> "GeneralError"

\* An error slot and an object slot of a bulk result.
ErrorSlot(id, type, error) ==
  [id |-> id, type |-> type, error |-> error, namespaces |-> UndefinedList,
   version |-> NoVersion, attributes |-> NoAttrs, isNotOverwritable |-> FALSE]

ObjectSlot(id, type, namespaces, version, attributes) ==
  [id |-> id, type |-> type, error |-> Undefined, namespaces |-> namespaces,
   version |-> version, attributes |-> attributes, isNotOverwritable |-> FALSE]

\* The result of a completed bulk call: its slots, and the index before and
\* after its last step.
BulkResult(op, args, slots, d1, d2, reads, writes) ==
  [op |-> op, args |-> args, err |-> Undefined, slots |-> slots,
   before |-> d1, after |-> d2, touched |-> Touched(d1, d2),
   reads |-> reads, writes |-> writes]

\* A bulk call that throws as a whole.
BulkThrow(p, op, args, err, reads, writes) ==
  Finish(p, [op |-> op, args |-> args, err |-> err, slots |-> <<>>,
             before |-> docs, after |-> docs, touched |-> {},
             reads |-> reads, writes |-> writes],
         docs, nextSeq)

\* A mutation of the request counters: every item takes position 0.
CounterStuck(i, counted) == 0

\* The number of the items j before item i with counted[j]: the value a
\* counter incremented on those items has when the map reaches item i.
CounterAt(i, counted) == Cardinality({j \in 1..(i - 1) : counted[j]})

----------------------------------------------------------------------------
(* bulkCreate                                                               *)

\* Phase 1: validate every item; a valid multi-namespace item takes the next
\* position of the multi-get request.  esRequestIndex -1 is "undefined".
bulkCreateExpectedResults(objects) ==
  LET error(i) == IF objects[i].type \notin allowedTypes THEN "UnsupportedType"
                  ELSE validateInitialNamespaces(objects[i].type,
                                                 objects[i].initialNamespaces)
      requiresNamespacesCheck(i) ==
        error(i) = Undefined /\ isMultiNamespace(objects[i].type)
  IN [i \in 1..Len(objects) |->
        IF error(i) # Undefined
        THEN [tag |-> "Left", error |-> error(i), esRequestIndex |-> -1]
        ELSE [tag |-> "Right", error |-> Undefined,
              esRequestIndex |-> IF requiresNamespacesCheck(i)
                                 THEN CounterAt(i, [j \in 1..Len(objects) |-> requiresNamespacesCheck(j)])
                                 ELSE -1]]

\* The raw ids of the multi-get request, in the order of their esRequestIndex.
bulkCreateGetDocs(objects, namespace, expected) ==
  LET checked == SelectSeq([i \in 1..Len(objects) |-> i],
                           LAMBDA i : expected[i].esRequestIndex # -1)
  IN [k \in 1..Len(checked) |->
        generateRawId(namespace, objects[checked[k]].type, objects[checked[k]].id)]

\* Phase 2: per item, the error found by the preflight or the write action.
bulkCreateExpectedBulkResults(objects, namespace, overwrite, expected, bulkGetResponse) ==
  LET actualResult(i) == bulkGetResponse[expected[i].esRequestIndex + 1]
      notOverwritable(i) ==
        /\ expected[i].tag = "Right"
        /\ expected[i].esRequestIndex # -1
        /\ actualResult(i).found
        /\ ~rawDocExistsInNamespace(actualResult(i), namespace)
      right(i) == expected[i].tag = "Right" /\ ~notOverwritable(i)
      savedObjectNamespace(i) ==
        IF expected[i].esRequestIndex = -1 /\ isSingleNamespace(objects[i].type)
        THEN IF objects[i].initialNamespaces # UndefinedList
             THEN objects[i].initialNamespaces[1] ELSE namespace
        ELSE Undefined
      savedObjectNamespaces(i) ==
        IF expected[i].esRequestIndex # -1
        THEN IF objects[i].initialNamespaces # UndefinedList
             THEN objects[i].initialNamespaces
             ELSE getSavedObjectNamespaces(namespace, actualResult(i))
        ELSE UndefinedList
      versionProperties(i) ==
        IF expected[i].esRequestIndex # -1
        THEN getExpectedVersionProperties(objects[i].version, actualResult(i))
        ELSE getExpectedVersionProperties(objects[i].version, NoDoc)
  IN [i \in 1..Len(objects) |->
        IF expected[i].tag = "Left" THEN expected[i]
        ELSE IF notOverwritable(i)
        THEN [tag |-> "Left", error |-> "Conflict", esRequestIndex |-> -1,
              metadata |-> [isNotOverwritable |-> TRUE]]
        ELSE [tag |-> "Right", error |-> Undefined,
              esRequestIndex |-> CounterAt(i, [j \in 1..Len(objects) |-> right(j)]),
              rawMigratedDoc |->
                savedObjectToRaw([id |-> objects[i].id, type |-> objects[i].type,
                                  namespace |-> savedObjectNamespace(i),
                                  namespaces |-> savedObjectNamespaces(i),
                                  attributes |-> objects[i].attributes]),
              vp |-> IF overwrite THEN versionProperties(i) ELSE NoVP]]

\* A mutation of bulkCreate that sends every item as an index action.
bulkCreateActionIndex(e, overwrite) ==
  [method |-> "index", id |-> e.rawMigratedDoc.id, source |-> e.rawMigratedDoc.source,
   vp |-> e.vp]

\* The actions of the bulk request, in the order of their esRequestIndex.
bulkCreateAction(e, overwrite) ==
  [method |-> IF overwrite THEN "index" ELSE "create",
   id |-> e.rawMigratedDoc.id, source |-> e.rawMigratedDoc.source, vp |-> e.vp]

RECURSIVE bulkCreateParamsUpTo(_, _, _)
bulkCreateParamsUpTo(expectedBulk, overwrite, n) ==
  IF n = 0 THEN <<>>
  ELSE IF expectedBulk[n].tag = "Right"
  THEN Append(bulkCreateParamsUpTo(expectedBulk, overwrite, n - 1),
              bulkCreateAction(expectedBulk[n], overwrite))
  ELSE bulkCreateParamsUpTo(expectedBulk, overwrite, n - 1)

bulkCreateParams(expectedBulk, overwrite) ==
  bulkCreateParamsUpTo(expectedBulk, overwrite, Len(expectedBulk))

\* Phase 3: the slot of item i, from the answer of its write action.
bulkCreateSlot(objects, expectedBulk, bulkResponse, i) ==
  IF expectedBulk[i].tag = "Left"
  THEN [ErrorSlot(objects[i].id, objects[i].type, expectedBulk[i].error)
          EXCEPT !.isNotOverwritable = "metadata" \in DOMAIN expectedBulk[i]]
  ELSE LET rawResponse == bulkResponse.items[expectedBulk[i].esRequestIndex + 1]
           source == expectedBulk[i].rawMigratedDoc.source
       IN IF getBulkOperationError(rawResponse) # Undefined
          THEN ErrorSlot(objects[i].id, source.type, getBulkOperationError(rawResponse))
          ELSE LET so == rawToSavedObject(objects[i].id, source, rawResponse.seq_no,
                                          rawResponse.primary_term)
               IN ObjectSlot(so.id, so.type, so.namespaces, so.version, so.attributes)

\* The bulk request has been answered: zip the answers back to input order.
BulkCreateZip(p, args, expectedBulk, bulkResponse, reads, writes) ==
  Finish(p, BulkResult("bulkCreate", args,
                       [i \in 1..Len(args.objects) |->
                          bulkCreateSlot(args.objects, expectedBulk, bulkResponse, i)],
                       docs, bulkResponse.docs, reads, writes),
         bulkResponse.docs, bulkResponse.seq)

\* A mutation of bulkCreate that sends its bulk request even without actions.
BulkCreateSendAlways(p, args, expectedBulk, params, reads) ==
  BulkCreateZip(p, args, expectedBulk, EsBulk(docs, nextSeq, params, Len(params)),
                reads, 1)

\* Send the bulk request, if it has any action.
BulkCreateSend(p, args, expectedBulk, params, reads) ==
  BulkCreateZip(p, args, expectedBulk, EsBulk(docs, nextSeq, params, Len(params)),
                reads, IF Len(params) > 0 THEN 1 ELSE 0)

\* Phase 2 migrates every item that is still valid; a document the migrator
\* rejects makes the whole call throw.
BulkCreateBuild(p, args, expectedBulk, reads) ==
  IF \E i \in 1..Len(args.objects) :
       /\ expectedBulk[i].tag = "Right"
       /\ migrateDocumentThrows(args.objects[i].attributes)
  THEN BulkThrow(p, "bulkCreate", args, "MigrationError", reads, 0)
  ELSE BulkCreateSend(p, args, expectedBulk,
                      bulkCreateParams(expectedBulk, args.overwrite), reads)

\* Phases 2 and 3 of bulkCreate, after the multi-get (if any) has answered.
BulkCreateWrite(p, args, bulkGetResponse, reads) ==
  BulkCreateBuild(p, args,
                  bulkCreateExpectedBulkResults(
                    args.objects, normalizeNamespace(args.namespace), args.overwrite,
                    bulkCreateExpectedResults(args.objects), bulkGetResponse),
                  reads)

\* bulkCreate after phase 1, with the raw ids of its multi-get.
BulkCreateGet(p, args, bulkGetDocs) ==
  IF Len(bulkGetDocs) > 0
  THEN Pend(p, [op |-> "bulkCreate", args |-> args,
                bulkGetResponse |-> EsMget(docs, bulkGetDocs)])
  ELSE BulkCreateWrite(p, args, <<>>, 0)

bulkCreate(p, objects, ns, overwrite) ==
  LET args == [objects |-> objects, namespace |-> ns, overwrite |-> overwrite] IN
  /\ call[p] = Idle
  /\ nextSeq <= MaxSeq
  /\ IF normalizeNamespaceThrows(ns)
     THEN BulkThrow(p, "bulkCreate", args, "BadRequest", 0, 0)
     ELSE BulkCreateGet(p, args,
                        bulkCreateGetDocs(objects, normalizeNamespace(ns),
                                          bulkCreateExpectedResults(objects)))

bulkCreateAfterPreflight(p) ==
  /\ call[p].op = "bulkCreate"
  /\ BulkCreateWrite(p, call[p].args, call[p].bulkGetResponse, 1)

----------------------------------------------------------------------------
(* bulkGet                                                                  *)

bulkGetExpectedResults(objects) ==
  LET right(i) == objects[i].type \in allowedTypes IN
  [i \in 1..Len(objects) |->
     IF ~right(i)
     THEN [tag |-> "Left", error |-> "UnsupportedType", esRequestIndex |-> -1]
     ELSE [tag |-> "Right", error |-> Undefined,
           esRequestIndex |-> CounterAt(i, [j \in 1..Len(objects) |-> right(j)])]]

bulkGetDocs(objects, namespace) ==
  LET rights == SelectSeq(objects, LAMBDA o : o.type \in allowedTypes) IN
  [k \in 1..Len(rights) |-> generateRawId(namespace, rights[k].type, rights[k].id)]

bulkGetSlot(objects, namespace, expected, bulkGetResponse, i) ==
  IF expected[i].tag = "Left"
  THEN ErrorSlot(objects[i].id, objects[i].type, expected[i].error)
  ELSE LET doc == bulkGetResponse[expected[i].esRequestIndex + 1] IN
       IF ~doc.found \/ ~rawDocExistsInNamespace(doc, namespace)
       THEN ErrorSlot(objects[i].id, objects[i].type, "NotFound")
       ELSE LET so == getSavedObjectFromSource(objects[i].type, objects[i].id, doc)
            IN ObjectSlot(so.id, so.type, so.namespaces, so.version, so.attributes)

BulkGetZip(p, args, expected, ids, bulkGetResponse) ==
  Finish(p, BulkResult("bulkGet", args,
                       [i \in 1..Len(args.objects) |->
                          bulkGetSlot(args.objects, normalizeNamespace(args.namespace),
                                      expected, bulkGetResponse, i)],
                       docs, docs, IF Len(ids) > 0 THEN 1 ELSE 0, 0),
         docs, nextSeq)

\* The multi-get and the reading of its answer. The answer for an absent
\* index is a 404 whose body either lists no docs, so that reading
\* body.docs[esRequestIndex] throws a TypeError, or lists every doc as not
\* found.
BulkGetSend(p, args, expected, ids) ==
  IF Len(ids) > 0 /\ IndexAbsent(nextSeq)
  THEN \/ BulkThrow(p, "bulkGet", args, "TypeError", 1, 0)
       \/ BulkGetZip(p, args, expected, ids, EsMget(docs, ids))
  ELSE BulkGetZip(p, args, expected, ids, EsMget(docs, ids))

bulkGet(p, objects, ns) ==
  LET args == [objects |-> objects, namespace |-> ns] IN
  /\ call[p] = Idle
  /\ IF normalizeNamespaceThrows(ns)
     THEN BulkThrow(p, "bulkGet", args, "BadRequest", 0, 0)
     ELSE BulkGetSend(p, args, bulkGetExpectedResults(objects),
                      bulkGetDocs(objects, normalizeNamespace(ns)))

----------------------------------------------------------------------------
(* bulkUpdate                                                               *)

\* Phase 1.  The namespace of an item, if it has one, supersedes the call's.
bulkUpdateExpectedBulkGetResults(objects) ==
  LET error(i) == IF objects[i].type \notin allowedTypes THEN "NotFound"
                  ELSE IF objects[i].namespace = ALL_NAMESPACES_STRING THEN "BadRequest"
                  ELSE Undefined
      requiresNamespacesCheck(i) ==
        error(i) = Undefined /\ isMultiNamespace(objects[i].type)
  IN [i \in 1..Len(objects) |->
        IF error(i) # Undefined
        THEN [tag |-> "Left", error |-> error(i), esRequestIndex |-> -1]
        ELSE [tag |-> "Right", error |-> Undefined,
              esRequestIndex |-> IF requiresNamespacesCheck(i)
                                 THEN CounterAt(i, [j \in 1..Len(objects) |-> requiresNamespacesCheck(j)])
                                 ELSE -1]]

getNamespaceId(objectNamespace, namespace) ==
  IF objectNamespace # Undefined THEN namespaceStringToId(objectNamespace)
  ELSE namespace

getNamespaceString(objectNamespace, namespace) ==
  IF objectNamespace # Undefined THEN objectNamespace
  ELSE namespaceIdToString(namespace)

bulkUpdateGetDocs(objects, namespace, expected) ==
  LET checked == SelectSeq([i \in 1..Len(objects) |-> i],
                           LAMBDA i : expected[i].esRequestIndex # -1)
  IN [k \in 1..Len(checked) |->
        generateRawId(getNamespaceId(objects[checked[k]].namespace, namespace),
                      objects[checked[k]].type, objects[checked[k]].id)]

\* Phase 2.
bulkUpdateExpectedBulkUpdateResults(objects, namespace, expected, bulkGetResponse) ==
  LET actualResult(i) == bulkGetResponse[expected[i].esRequestIndex + 1]
      notFound(i) ==
        /\ expected[i].tag = "Right"
        /\ expected[i].esRequestIndex # -1
        /\ \/ ~actualResult(i).found
           \/ ~rawDocExistsInNamespace(actualResult(i),
                                       getNamespaceId(objects[i].namespace, namespace))
      right(i) == expected[i].tag = "Right" /\ ~notFound(i)
      namespaces(i) ==
        IF expected[i].esRequestIndex # -1
        THEN IF actualResult(i).source.namespaces # UndefinedList
             THEN actualResult(i).source.namespaces
             ELSE <<namespaceIdToString(actualResult(i).source.namespace)>>
        ELSE IF isSingleNamespace(objects[i].type)
        THEN <<getNamespaceString(objects[i].namespace, namespace)>>
        ELSE UndefinedList
      versionProperties(i) ==
        IF expected[i].esRequestIndex # -1
        THEN getExpectedVersionProperties(objects[i].version, actualResult(i))
        ELSE getExpectedVersionProperties(objects[i].version, NoDoc)
  IN [i \in 1..Len(objects) |->
        IF expected[i].tag = "Left" THEN expected[i]
        ELSE IF notFound(i)
        THEN [tag |-> "Left", error |-> "NotFound", esRequestIndex |-> -1]
        ELSE [tag |-> "Right", error |-> Undefined,
              esRequestIndex |-> CounterAt(i, [j \in 1..Len(objects) |-> right(j)]),
              namespaces |-> namespaces(i),
              rawId |-> generateRawId(getNamespaceId(objects[i].namespace, namespace),
                                      objects[i].type, objects[i].id),
              vp |-> versionProperties(i)]]

bulkUpdateAction(o, e) ==
  [method |-> "update", id |-> e.rawId, attributes |-> o.attributes, vp |-> e.vp]

RECURSIVE bulkUpdateParamsUpTo(_, _, _)
bulkUpdateParamsUpTo(objects, expectedBulk, n) ==
  IF n = 0 THEN <<>>
  ELSE IF expectedBulk[n].tag = "Right"
  THEN Append(bulkUpdateParamsUpTo(objects, expectedBulk, n - 1),
              bulkUpdateAction(objects[n], expectedBulk[n]))
  ELSE bulkUpdateParamsUpTo(objects, expectedBulk, n - 1)

bulkUpdateParams(objects, expectedBulk) ==
  bulkUpdateParamsUpTo(objects, expectedBulk, Len(objects))

\* Phase 3: the slot of item i, from the answer of its update action.
bulkUpdateSlot(objects, expectedBulk, bulkUpdateResponse, i) ==
  IF expectedBulk[i].tag = "Left"
  THEN ErrorSlot(objects[i].id, objects[i].type, expectedBulk[i].error)
  ELSE LET rawResponse == bulkUpdateResponse.items[expectedBulk[i].esRequestIndex + 1]
       IN IF getBulkOperationError(rawResponse) # Undefined
          THEN ErrorSlot(objects[i].id, objects[i].type,
                         getBulkOperationError(rawResponse))
          ELSE ObjectSlot(objects[i].id, objects[i].type, expectedBulk[i].namespaces,
                          encodeVersion(rawResponse.seq_no, rawResponse.primary_term),
                          objects[i].attributes)

BulkUpdateZip(p, args, expectedBulk, bulkUpdateResponse, reads, writes) ==
  Finish(p, BulkResult("bulkUpdate", args,
                       [i \in 1..Len(args.objects) |->
                          bulkUpdateSlot(args.objects, expectedBulk,
                                         bulkUpdateResponse, i)],
                       docs, bulkUpdateResponse.docs, reads, writes),
         bulkUpdateResponse.docs, bulkUpdateResponse.seq)

BulkUpdateSend(p, args, expectedBulk, params, reads) ==
  BulkUpdateZip(p, args, expectedBulk, EsBulk(docs, nextSeq, params, Len(params)),
                reads, IF Len(params) > 0 THEN 1 ELSE 0)

BulkUpdateBuild(p, args, expectedBulk, reads) ==
  BulkUpdateSend(p, args, expectedBulk, bulkUpdateParams(args.objects, expectedBulk),
                 reads)

\* Phases 2 and 3 of bulkUpdate, after the multi-get (if any) has answered.
BulkUpdateWrite(p, args, bulkGetResponse, reads) ==
  BulkUpdateBuild(p, args,
                  bulkUpdateExpectedBulkUpdateResults(
                    args.objects, normalizeNamespace(args.namespace),
                    bulkUpdateExpectedBulkGetResults(args.objects), bulkGetResponse),
                  reads)

BulkUpdateGet(p, args, ids) ==
  IF Len(ids) > 0
  THEN Pend(p, [op |-> "bulkUpdate", args |-> args,
                bulkGetResponse |-> EsMget(docs, ids)])
  ELSE BulkUpdateWrite(p, args, <<>>, 0)

bulkUpdate(p, objects, ns) ==
  LET args == [objects |-> objects, namespace |-> ns] IN
  /\ call[p] = Idle
  /\ nextSeq <= MaxSeq
  /\ IF normalizeNamespaceThrows(ns)
     THEN BulkThrow(p, "bulkUpdate", args, "BadRequest", 0, 0)
     ELSE BulkUpdateGet(p, args,
                        bulkUpdateGetDocs(objects, normalizeNamespace(ns),
                                          bulkUpdateExpectedBulkGetResults(objects)))

bulkUpdateAfterPreflight(p) ==
  /\ call[p].op = "bulkUpdate"
  /\ BulkUpdateWrite(p, call[p].args, call[p].bulkGetResponse, 1)

----------------------------------------------------------------------------
(* resolve                                                                  *)

EXACT_MATCH == "resolvedOutcome.exactMatch"
ALIAS_MATCH == "resolvedOutcome.aliasMatch"
CONFLICT == "resolvedOutcome.conflict"
NOT_FOUND == "resolvedOutcome.notFound"
TOTAL == "resolvedOutcome.total"

\* this._getCurrentTime(): the clock of the model is the count of the writes
\* the index has taken.
getCurrentTime(seq) == seq

\* A mutation of the alias script that counts a disabled alias as well.
EsAliasUpdateCountingDisabled(d, seq, rawAliasId) ==
  LET cur == EsGet(d, rawAliasId)
      a == cur.source.attributes
  IN IF ~cur.found THEN [status |-> 404, docs |-> d, seq |-> seq]
     ELSE [status |-> 200,
           docs |-> Put(d, rawAliasId,
                        Stored([cur.source EXCEPT !.attributes =
                                  [k \in DOMAIN a \cup {"resolveCounter", "lastResolved"} |->
                                     IF k = "resolveCounter"
                                     THEN IF "resolveCounter" \in DOMAIN a
                                          THEN a.resolveCounter + 1 ELSE 1
                                     ELSE IF k = "lastResolved" THEN getCurrentTime(seq)
                                     ELSE a[k]]],
                               seq)),
           seq |-> seq + 1]

\* The script of resolve on the alias document: count the resolution and note
\* its time unless the alias is disabled.  The store rewrites the document
\* either way.
EsAliasUpdate(d, seq, rawAliasId) ==
  LET cur == EsGet(d, rawAliasId) IN
  IF ~cur.found THEN [status |-> 404, docs |-> d, seq |-> seq]
  ELSE LET a == cur.source.attributes
           counted == [k \in DOMAIN a \cup {"resolveCounter", "lastResolved"} |->
                         IF k = "resolveCounter"
                         THEN IF "resolveCounter" \in DOMAIN a
                              THEN a.resolveCounter + 1 ELSE 1
                         ELSE IF k = "lastResolved" THEN getCurrentTime(seq)
                         ELSE a[k]]
       IN [status |-> 200,
           docs |-> Put(d, rawAliasId,
                        Stored([cur.source EXCEPT
                                  !.attributes = IF a.disabled THEN a ELSE counted],
                               seq)),
           seq |-> seq + 1]

\* What the call will return once the outcome counter has been updated.
ResolveOutcome(err, obj, stat) == [err |-> err, obj |-> obj, stat |-> stat]

\* resolveExactMatch up to its counter update: get the object by its id.
ResolveExact(d, args) ==
  LET namespace == normalizeNamespace(args.namespace)
      body == EsGet(d, generateRawId(namespace, args.type, args.id))
  IN IF ~body.found \/ ~rawDocExistsInNamespace(body, namespace)
     THEN ResolveOutcome("NotFound", NoObj, NOT_FOUND)
     ELSE ResolveOutcome(Undefined,
                         [saved_object |-> getSavedObjectFromSource(args.type, args.id, body),
                          outcome |-> "exactMatch", aliasTargetId |-> Undefined],
                         EXACT_MATCH)

\* A mutation of the test of the alias target that skips its namespaces.
foundMatchInAnyNamespace(doc, namespace) == doc.found

\* Whether a hit of the multi-get is an object of the namespace.
foundMatch(doc, namespace) ==
  doc.found /\ rawDocExistsInNamespace(doc, namespace)

\* The classification of resolve after the multi-get of both candidates.
ResolveClassify(d, args, targetId) ==
  LET namespace == normalizeNamespace(args.namespace)
      bulkGetResponse == EsMget(d, <<generateRawId(namespace, args.type, args.id),
                                     generateRawId(namespace, args.type, targetId)>>)
      exactMatchDoc == bulkGetResponse[1]
      aliasMatchDoc == bulkGetResponse[2]
      foundExactMatch == foundMatch(exactMatchDoc, namespace)
      foundAliasMatch == foundMatch(aliasMatchDoc, namespace)
  IN IF foundExactMatch /\ foundAliasMatch
     THEN ResolveOutcome(Undefined,
            [saved_object |-> getSavedObjectFromSource(args.type, args.id, exactMatchDoc),
             outcome |-> "conflict", aliasTargetId |-> targetId], CONFLICT)
     ELSE IF foundExactMatch
     THEN ResolveOutcome(Undefined,
            [saved_object |-> getSavedObjectFromSource(args.type, args.id, exactMatchDoc),
             outcome |-> "exactMatch", aliasTargetId |-> Undefined], EXACT_MATCH)
     ELSE IF foundAliasMatch
     THEN ResolveOutcome(Undefined,
            [saved_object |-> getSavedObjectFromSource(args.type, targetId, aliasMatchDoc),
             outcome |-> "aliasMatch", aliasTargetId |-> targetId], ALIAS_MATCH)
     ELSE ResolveOutcome("NotFound", NoObj, NOT_FOUND)

\* resolve up to its first store request: the get of the default namespace,
\* or the update of the alias.
resolve(p, type, id, ns) ==
  LET args == [type |-> type, id |-> id, namespace |-> ns]
      namespace == normalizeNamespace(ns)
  IN
  /\ call[p] = Idle
  /\ nextSeq <= MaxSeq
  /\ IF type \notin allowedTypes
     THEN Throw(p, "resolve", args, "NotFound", Undefined, 0, 0)
     ELSE IF normalizeNamespaceThrows(ns)
     THEN Throw(p, "resolve", args, "BadRequest", Undefined, 0, 0)
     ELSE IF namespace = Undefined
     THEN Pend(p, [op |-> "resolveStats", args |-> args,
                   outcome |-> ResolveExact(docs, args), reads |-> 1, writes |-> 0])
     ELSE LET r == EsAliasUpdate(docs, nextSeq,
                                 generateRawLegacyUrlAliasId(namespace, type, id))
              alias == EsGet(r.docs, generateRawLegacyUrlAliasId(namespace, type, id))
          IN /\ call' = [call EXCEPT ![p] =
                  IF r.status = 404 \/ alias.source.attributes.disabled
                  THEN [op |-> "resolveGet", args |-> args]
                  ELSE [op |-> "resolveMget", args |-> args,
                        targetId |-> alias.source.attributes.targetId]]
             /\ res' = [res EXCEPT ![p] = NoRes]
             /\ docs' = r.docs
             /\ nextSeq' = r.seq

resolveGet(p) ==
  /\ call[p].op = "resolveGet"
  /\ call' = [call EXCEPT ![p] =
                [op |-> "resolveStats", args |-> call[p].args,
                 outcome |-> ResolveExact(docs, call[p].args),
                 reads |-> 1, writes |-> 1]]
  /\ UNCHANGED <<docs, nextSeq, res>>

resolveMget(p) ==
  /\ call[p].op = "resolveMget"
  /\ call' = [call EXCEPT ![p] =
                [op |-> "resolveStats", args |-> call[p].args,
                 outcome |-> ResolveClassify(docs, call[p].args, call[p].targetId),
                 reads |-> 1, writes |-> 1]]
  /\ UNCHANGED <<docs, nextSeq, res>>

\* A mutation of the catch of the counter update that lets its error out.
statsErrorSurfaced(err, status) ==
  IF status \in {200, 201} THEN err ELSE EsErrorKind(status)

\* .catch(() => {}) of incrementResolveOutcomeStats: whatever the status of
\* the counter update, the call ends as it was going to.
statsErrorSwallowed(err, status) == err

\* incrementResolveOutcomeStats, then the return or the throw.  The counter
\* update may fail (ok = FALSE); its error is swallowed.
resolveStats(p, ok) ==
  LET c == call[p]
      fields == normalizedCounterFields(
                  <<[fieldName |-> c.outcome.stat, incrementBy |-> <<>>],
                    [fieldName |-> TOTAL, incrementBy |-> <<>>]>>, FALSE)
      raw == savedObjectToRaw([id |-> CORE_USAGE_STATS_ID, type |-> CORE_USAGE_STATS_TYPE,
                               namespace |-> Undefined, namespaces |-> UndefinedList,
                               attributes |-> CounterAttributes(fields, Len(fields))])
      r == IF ok THEN EsScriptedUpdate(docs, nextSeq, raw.id, fields, raw)
           ELSE [status |-> 503, docs |-> docs, seq |-> nextSeq]
  IN
  /\ c.op = "resolveStats"
  /\ Finish(p, [op |-> "resolve", args |-> c.args,
                err |-> statsErrorSwallowed(c.outcome.err, r.status),
                obj |-> c.outcome.obj, stat |-> c.outcome.stat, statOk |-> ok,
                before |-> docs, after |-> r.docs, touched |-> Touched(docs, r.docs),
                reads |-> c.reads, writes |-> c.writes + 1],
            r.docs, r.seq)

----------------------------------------------------------------------------
(* find                                                                     *)

\* Options a caller leaves out: no typeToNamespacesMap, no point-in-time
\* token, no searchAfter cursor, no 'from' in a request.
NoMap == [none |-> TRUE]
NoPit == [none |-> TRUE]
NoSearchAfter == <<>>
NoFrom == <<>>

\* A mutation of findOptionsRejected without the check of type given together
\* with typeToNamespacesMap.
findOptionsRejectedUnlessBoth(options) ==
  IF options.type = UndefinedList /\ options.typeToNamespacesMap = NoMap THEN TRUE
  ELSE IF options.namespaces = <<>> /\ options.typeToNamespacesMap = NoMap THEN TRUE
  ELSE IF /\ options.namespaces = UndefinedList \/ Len(options.namespaces) > 0
          /\ options.typeToNamespacesMap # NoMap
  THEN TRUE
  ELSE options.preference # "" /\ options.pit # NoPit

\* The chain of checks at the head of find; each of them throws BadRequest.
findOptionsRejected(options) ==
  IF options.type = UndefinedList /\ options.typeToNamespacesMap = NoMap THEN TRUE
  ELSE IF options.namespaces = <<>> /\ options.typeToNamespacesMap = NoMap THEN TRUE
  ELSE IF options.type # UndefinedList /\ options.typeToNamespacesMap # NoMap THEN TRUE
  ELSE IF /\ options.namespaces = UndefinedList \/ Len(options.namespaces) > 0
          /\ options.typeToNamespacesMap # NoMap
  THEN TRUE
  ELSE options.preference # "" /\ options.pit # NoPit

\* const types = type ? [type] : Array.from(typeToNamespacesMap.keys()),
\* filtered by the allowed set.
findAllowedTypes(options) ==
  (IF options.type # UndefinedList
   THEN {options.type[i] : i \in 1..Len(options.type)}
   ELSE DOMAIN options.typeToNamespacesMap) \cap allowedTypes

\* A mutation of findEsOptions that leaves the point-in-time token out of the
\* request.
findEsOptionsWithoutPit(options) ==
  [from |-> IF options.searchAfter # NoSearchAfter THEN NoFrom
            ELSE <<options.perPage * (options.page - 1)>>,
   size |-> options.perPage,
   preference |-> options.preference,
   body |-> [size |-> options.perPage,
             from |-> <<options.perPage * (options.page - 1)>>,
             search_after |-> options.searchAfter,
             pit |-> NoPit]]

\* A mutation of findEsOptions that leaves the searchAfter cursor out of the
\* request.
findEsOptionsWithoutCursor(options) ==
  [from |-> IF options.searchAfter # NoSearchAfter THEN NoFrom
            ELSE <<options.perPage * (options.page - 1)>>,
   size |-> options.perPage,
   preference |-> options.preference,
   body |-> [size |-> options.perPage,
             from |-> <<options.perPage * (options.page - 1)>>,
             search_after |-> NoSearchAfter,
             pit |-> options.pit]]

\* The search request find builds: the top-level 'from' is left out when a
\* searchAfter cursor is given, the 'from' of the body is always set.
findEsOptions(options) ==
  [from |-> IF options.searchAfter # NoSearchAfter THEN NoFrom
            ELSE <<options.perPage * (options.page - 1)>>,
   size |-> options.perPage,
   preference |-> options.preference,
   body |-> [size |-> options.perPage,
             from |-> <<options.perPage * (options.page - 1)>>,
             search_after |-> options.searchAfter,
             pit |-> options.pit]]

\* The namespaces the query searches a type in.
SearchNamespaces(options, type) ==
  IF options.typeToNamespacesMap # NoMap THEN options.typeToNamespacesMap[type]
  ELSE IF options.namespaces = UndefinedList THEN <<DEFAULT_NAMESPACE_STRING>>
  ELSE options.namespaces

\* The documents the query of find selects.
FindQuery(doc, options) ==
  /\ doc.source.type \in findAllowedTypes(options)
  /\ LET namespaces == SearchNamespaces(options, doc.source.type) IN
     \/ isNamespaceAgnostic(doc.source.type)
     \/ Includes(namespaces, ALL_NAMESPACES_STRING)
     \/ \E i \in 1..Len(namespaces) : InNamespaceQuery(doc, namespaces[i])

\* The raw ids of a set of documents in the order of their sort value, which
\* is their sequence number.
SortedHits(d, ids) ==
  [i \in 1..Cardinality(ids) |->
     CHOOSE k \in ids : Cardinality({j \in ids : d[j].seq_no < d[k].seq_no}) = i - 1]

\* The store's answer to a search: 404 when the index is absent, 400 when an
\* offset is asked for together with a cursor; else the page of the hits after
\* the cursor that the offset and the size cut out. An offset in the query
\* string takes precedence over the one in the body.
EsSearch(d, seq, selected, esOptions) ==
  LET offset == IF esOptions.from # NoFrom THEN esOptions.from[1]
                ELSE IF esOptions.body.from # NoFrom THEN esOptions.body.from[1]
                ELSE 0
      after == esOptions.body.search_after
      page(hits) ==
        SubSeq(hits, offset + 1,
               IF offset + esOptions.size < Len(hits)
               THEN offset + esOptions.size ELSE Len(hits))
  IN IF IndexAbsent(seq) THEN [statusCode |-> 404, total |-> 0, hits |-> <<>>]
     ELSE IF after # NoSearchAfter /\ offset > 0
     THEN [statusCode |-> 400, total |-> 0, hits |-> <<>>]
     ELSE [statusCode |-> 200, total |-> Cardinality(selected),
           hits |-> With(SortedHits(d, {k \in selected :
                                          after = NoSearchAfter \/ d[k].seq_no > after[1]}),
                         page)]

\* One entry of saved_objects: the hit through _rawToSavedObject, with its
\* sort value. The entry is identified by the raw id of the hit.
findHit(d, rawId) ==
  rawToSavedObject(rawId, d[rawId].source, d[rawId].seq_no, d[rawId].primary_term)
    @@ [sort |-> <<d[rawId].seq_no>>]

findResponse(options, total, saved_objects) ==
  [page |-> options.page, per_page |-> options.perPage, total |-> total,
   saved_objects |-> saved_objects]

\* How find ends over the index d: the error it throws or the response it
\* returns, the search request it sent (NoObj when it sent none) and the
\* number of its store requests. The response to a search that was answered
\* carries the point-in-time token of the answer.
findOutcome(d, seq, options) ==
  IF findOptionsRejected(options)
  THEN [err |-> "BadRequest", obj |-> NoObj, request |-> NoObj, reads |-> 0]
  ELSE IF findAllowedTypes(options) = {}
  THEN [err |-> Undefined, obj |-> findResponse(options, 0, <<>>),
        request |-> NoObj, reads |-> 0]
  ELSE LET answered(esOptions, r) ==
             IF r.statusCode = 404
             THEN [err |-> Undefined, obj |-> findResponse(options, 0, <<>>),
                   request |-> esOptions, reads |-> 1]
             ELSE IF r.statusCode >= 400
             THEN [err |-> EsErrorKind(r.statusCode), obj |-> NoObj,
                   request |-> esOptions, reads |-> 1]
             ELSE [err |-> Undefined,
                   obj |-> findResponse(options, r.total,
                                        [i \in 1..Len(r.hits) |-> findHit(d, r.hits[i])])
                             @@ [pit_id |-> esOptions.body.pit],
                   request |-> esOptions, reads |-> 1]
           search(esOptions) ==
             With(EsSearch(d, seq, {k \in DOMAIN d : FindQuery(d[k], options)},
                           esOptions),
                  LAMBDA r : answered(esOptions, r))
       IN With(findEsOptions(options), search)

\* What find leaves in res: the record of a call, with the search request it
\* sent, or NoObj when it sent none.
FindResult(options, err, obj, request, reads) ==
  Result("find", [options |-> options], err, obj, Undefined, docs, docs, reads, 0)
    @@ [request |-> request]

FindEnd(p, options, out) ==
  Finish(p, FindResult(options, out.err, out.obj, out.request, out.reads),
         docs, nextSeq)

find(p, options) ==
  /\ call[p] = Idle
  /\ FindEnd(p, options, findOutcome(docs, nextSeq, options))

----------------------------------------------------------------------------
(* Point-in-time snapshots and the point-in-time finder                     *)

\* The token of a snapshot, as find takes it in its pit option.
PitToken(pit) == [id |-> pit.id]

\* openPointInTimeForType: NotFound when no type is allowed or when the store
\* answers 404; else the snapshot the store opened over the index.
openPointInTimeForType(d, seq, type, id) ==
  IF {type[i] : i \in 1..Len(type)} \cap allowedTypes = {}
  THEN [err |-> "NotFound", pit |-> NoPit]
  ELSE IF IndexAbsent(seq)
  THEN [err |-> "NotFound", pit |-> NoPit]
  ELSE [err |-> Undefined,
        pit |-> [id |-> id, docs |-> d, open |-> TRUE, closes |-> 0]]

\* A mutation of closePointInTime that sends nothing to the store.
closePointInTimeUnsent(pit) == pit

\* closePointInTime: the request is passed on to the store, which closes the
\* snapshot.
closePointInTime(pit) == [pit EXCEPT !.open = FALSE, !.closes = @ + 1]

\* The finder closes its snapshot when it holds an open one.
FinderClose(c) ==
  IF c.pit # NoPit /\ c.open
  THEN [c EXCEPT !.pit = closePointInTime(@), !.open = FALSE]
  ELSE [c EXCEPT !.open = FALSE]

\* The options of the find the finder issues next: those it was created with,
\* the token of its snapshot and the cursor it holds, on the default page.
FinderFindOptions(c) ==
  [type |-> c.args.type, typeToNamespacesMap |-> NoMap,
   namespaces |-> c.args.namespaces, preference |-> "",
   pit |-> IF c.pit = NoPit THEN NoPit ELSE PitToken(c.pit),
   searchAfter |-> c.searchAfter, page |-> 1, perPage |-> c.args.perPage]

\* What a finished run of the finder leaves in res.
FinderResult(c, err) ==
  [op |-> "finder", args |-> c.args, err |-> err, pit |-> c.pit,
   pages |-> c.pages, requests |-> c.requests, findsAfterClose |-> c.findsAfterClose]

FinderEnd(p, c, err) == Finish(p, FinderResult(c, err), docs, nextSeq)

\* The start of an iteration: the finder opens its snapshot. When no snapshot
\* can be opened the run either ends with the error or goes on without one.
finderOpen(p, type, namespaces, perPage) ==
  LET r == openPointInTimeForType(docs, nextSeq, type, p)
      c == [op |-> "finder", pc |-> "opened",
            args |-> [type |-> type, namespaces |-> namespaces, perPage |-> perPage],
            pit |-> r.pit, open |-> r.err = Undefined,
            searchAfter |-> NoSearchAfter, pages |-> <<>>, requests |-> <<>>,
            findsAfterClose |-> 0]
  IN
  /\ call[p] = Idle
  /\ IF r.err = Undefined THEN Pend(p, c)
     ELSE \/ Pend(p, c)
          \/ FinderEnd(p, c, r.err)

\* The run after a find was issued: its request is on record.
FinderAsked(c, out) ==
  [c EXCEPT !.requests = Append(@, out.request),
            !.findsAfterClose = IF c.pit # NoPit /\ ~c.pit.open THEN @ + 1 ELSE @]

\* The run after a find returned a page: the page is on record and the sort
\* value of its last hit is the cursor of the next find.
FinderGot(c, hits, out) ==
  [c EXCEPT !.pc = "yielded",
            !.pages = Append(@, out.obj),
            !.searchAfter = IF Len(hits) > 0 THEN hits[Len(hits)].sort ELSE @]

\* A find that fails makes the finder close its snapshot and ends the run
\* with the error; a page shorter than perPage makes it close its snapshot
\* before the page is yielded.
FinderTake(p, c, storeFails, out) ==
  IF storeFails \/ out.err # Undefined
  THEN FinderEnd(p, FinderClose(c), IF storeFails THEN "GeneralError" ELSE out.err)
  ELSE IF Len(out.obj.saved_objects) < c.args.perPage
  THEN Pend(p, FinderClose(FinderGot(c, out.obj.saved_objects, out)))
  ELSE Pend(p, FinderGot(c, out.obj.saved_objects, out))

\* One find of the run, over the snapshot.
FinderFind(p, c, storeFails) ==
  \E out \in {findOutcome(IF c.pit = NoPit THEN docs ELSE c.pit.docs, nextSeq,
                          FinderFindOptions(c))} :
    \E asked \in {FinderAsked(c, out)} : FinderTake(p, asked, storeFails, out)

\* The caller asks for the next page: the first find after the opening, a
\* further find while the snapshot is open and the last page was full, the
\* end of the iteration otherwise.
finderNext(p, storeFails) ==
  LET c == call[p] IN
  /\ c.op = "finder"
  /\ IF \/ c.pc = "opened"
        \/ /\ c.open
           /\ Len(c.pages[Len(c.pages)].saved_objects) >= c.args.perPage
     THEN Len(c.requests) <= MaxSeq /\ FinderFind(p, c, storeFails)
     ELSE ~storeFails /\ FinderEnd(p, c, Undefined)

\* The caller closes the finder after a page.
finderClose(p) ==
  /\ call[p].op = "finder"
  /\ call[p].pc = "yielded"
  /\ Pend(p, FinderClose(call[p]))

----------------------------------------------------------------------------
----------------------------------------------------------------------------
(* collectMultiNamespaceReferences                                          *)

\* The (type, id) pair of a seed object or of a reference.
NodeKey(o) == [type |-> o.type, id |-> o.id]

\* The collector visits objects of allowed multi-namespace types only.
validObjectTypesFilter(o) == o.type \in allowedTypes /\ isMultiNamespace(o.type)

\* The pairs of s without repetition, in order of first occurrence.
UniqueKeys(s) ==
  LET keys == [i \in 1..Len(s) |-> NodeKey(s[i])]
      first == {i \in 1..Len(s) : \A j \in 1..(i - 1) : keys[j] # keys[i]}
  IN [n \in 1..Cardinality(first) |->
        keys[CHOOSE i \in first : Cardinality({j \in first : j < i}) = n - 1]]

\* The entry of one visited object: its spaces as the index holds them now,
\* none when the index does not hold the object.
CollectedObject(d, key) ==
  LET doc == EsGet(d, generateRawId(Undefined, key.type, key.id)) IN
  [type |-> key.type, id |-> key.id,
   spaces |-> IF doc.found THEN doc.source.namespaces ELSE <<>>,
   isMissing |-> ~doc.found]

\* The references of a visited object that lead to objects the collector
\* visits.
ValidReferences(d, key) ==
  LET doc == EsGet(d, generateRawId(Undefined, key.type, key.id)) IN
  IF doc.found /\ "references" \in DOMAIN doc.source
  THEN SelectSeq(doc.source.references, validObjectTypesFilter)
  ELSE <<>>

\* The references of the objects of one round, in order.
RECURSIVE FrontierReferences(_, _)
FrontierReferences(d, frontier) ==
  IF frontier = <<>> THEN <<>>
  ELSE ValidReferences(d, Head(frontier)) \o FrontierReferences(d, Tail(frontier))

\* A mutation of NextFrontier that fetches every referenced object again.
NextFrontierRevisiting(d, frontier, visited) ==
  UniqueKeys(FrontierReferences(d, frontier))

\* The objects to fetch in the next round: those referenced by the objects of
\* this round that were neither fetched before nor in this round.
NextFrontier(d, frontier, visited) ==
  LET seen == {visited[i] : i \in 1..Len(visited)}
                \cup {frontier[i] : i \in 1..Len(frontier)}
  IN SelectSeq(UniqueKeys(FrontierReferences(d, frontier)),
               LAMBDA key : key \notin seen)

collectMultiNamespaceReferences(p, objects) ==
  /\ call[p] = Idle
  /\ Pend(p, [op |-> "collectMultiNamespaceReferences",
              args |-> [objects |-> objects],
              bulkGetObjects |-> UniqueKeys(SelectSeq(objects, validObjectTypesFilter)),
              visited |-> <<>>, objects |-> <<>>, rounds |-> 0])

\* One round of the walk: fetch the objects of the frontier in one batch,
\* or return what was collected when the frontier is empty.
collectRound(p) ==
  LET c == call[p] IN
  /\ c.op = "collectMultiNamespaceReferences"
  /\ IF c.bulkGetObjects = <<>>
     THEN Finish(p, Result("collectMultiNamespaceReferences", c.args, Undefined,
                           [objects |-> c.objects], Undefined, docs, docs,
                           c.rounds, 0),
                 docs, nextSeq)
     ELSE \E next \in {NextFrontier(docs, c.bulkGetObjects, c.visited)} :
          /\ c.rounds <= MaxSeq
          /\ Pend(p, [c EXCEPT
                        !.objects = @ \o [i \in 1..Len(c.bulkGetObjects) |->
                                            CollectedObject(docs, c.bulkGetObjects[i])],
                        !.visited = @ \o c.bulkGetObjects,
                        !.bulkGetObjects = next,
                        !.rounds = @ + 1])

----------------------------------------------------------------------------
(* checkConflicts                                                           *)

\* A mutation of checkConflicts that never marks a conflict as not
\* overwritable.
checkConflictsErrorOverwritable(objects, namespace, bulkGetResponse, i) ==
  IF objects[i].type \notin allowedTypes
  THEN [id |-> objects[i].id, type |-> objects[i].type,
        error |-> "UnsupportedType", isNotOverwritable |-> FALSE]
  ELSE [id |-> objects[i].id, type |-> objects[i].type,
        error |-> IF EsGet(docs, generateRawId(namespace, objects[i].type,
                                               objects[i].id)).found
                  THEN "Conflict" ELSE Undefined,
        isNotOverwritable |-> FALSE]

\* A mutation of checkConflicts that reports every object as NotFound.
checkConflictsErrorNotFound(objects, namespace, bulkGetResponse, i) ==
  [id |-> objects[i].id, type |-> objects[i].type, error |-> "NotFound",
   isNotOverwritable |-> FALSE]

\* The entry of object i in the errors of checkConflicts: UnsupportedType for
\* a type that is not allowed, Conflict for an object the index holds, and
\* none for an object the index does not hold.
checkConflictsError(objects, namespace, bulkGetResponse, i) ==
  LET right(j) == objects[j].type \in allowedTypes
      esRequestIndex == CounterAt(i, [j \in 1..Len(objects) |-> right(j)])
  IN IF ~right(i)
     THEN [id |-> objects[i].id, type |-> objects[i].type,
           error |-> "UnsupportedType", isNotOverwritable |-> FALSE]
     ELSE LET doc == bulkGetResponse[esRequestIndex + 1] IN
          IF doc.found
          THEN [id |-> objects[i].id, type |-> objects[i].type,
                error |-> "Conflict",
                isNotOverwritable |-> ~rawDocExistsInNamespace(doc, namespace)]
          ELSE [id |-> objects[i].id, type |-> objects[i].type,
                error |-> Undefined, isNotOverwritable |-> FALSE]

checkConflictsZip(p, args, ids) ==
  LET namespace == normalizeNamespace(args.namespace)
      bulkGetResponse == EsMget(docs, ids)
      all == [i \in 1..Len(args.objects) |->
                checkConflictsError(args.objects, namespace, bulkGetResponse, i)]
  IN Finish(p, BulkResult("checkConflicts", args,
                          SelectSeq(all, LAMBDA e : e.error # Undefined),
                          docs, docs, IF Len(ids) > 0 THEN 1 ELSE 0, 0),
            docs, nextSeq)

\* The documents are read with one multi-get, sent only when an object has an
\* allowed type.  The answer for an absent index is read as that of bulkGet.
checkConflicts(p, objects, ns) ==
  LET args == [objects |-> objects, namespace |-> ns]
      ids == bulkGetDocs(objects, normalizeNamespace(ns))
  IN
  /\ call[p] = Idle
  /\ IF objects = <<>>
     THEN Finish(p, BulkResult("checkConflicts", args, <<>>, docs, docs, 0, 0),
                 docs, nextSeq)
     ELSE IF normalizeNamespaceThrows(ns)
     THEN BulkThrow(p, "checkConflicts", args, "BadRequest", 0, 0)
     ELSE IF Len(ids) > 0 /\ IndexAbsent(nextSeq)
     THEN \/ BulkThrow(p, "checkConflicts", args, "TypeError", 1, 0)
          \/ checkConflictsZip(p, args, ids)
     ELSE checkConflictsZip(p, args, ids)

Init ==
  /\ docs = [k \in {} |-> NoDoc]
  /\ nextSeq = 1
  /\ call = [p \in Procs |-> Idle]
  /\ res = [p \in Procs |-> NoRes]

\* The version tokens a caller can hold: none, or one read earlier.
Versions == {NoVersion} \cup {encodeVersion(n, 1) : n \in 1..MaxSeq}

\* The arrays of at most MaxBulk items drawn from a set of items.
Arrays(Items) == UNION {[1..n -> Items] : n \in 0..MaxBulk}

----------------------------------------------------------------------------
(* Writes that carry a version: one caller, one single-namespace and one    *)
(* shareable object.                                                        *)

VersionBulkCreateItems ==
  {[type |-> TSingle, id |-> "1", attributes |-> AttrB, version |-> v,
    initialNamespaces |-> UndefinedList] : v \in Versions}
  \cup {[type |-> TSingle, id |-> "2", attributes |-> AttrB, version |-> NoVersion,
         initialNamespaces |-> UndefinedList]}

VersionBulkUpdateItems ==
  {[type |-> TSingle, id |-> "1", attributes |-> AttrB, version |-> v,
    namespace |-> Undefined] : v \in Versions}
  \cup {[type |-> TSingle, id |-> "2", attributes |-> AttrA, version |-> NoVersion,
         namespace |-> Undefined]}

NextVersion ==
  \E p \in {"p1"} :
    \/ /\ res[p] = NoRes
       /\ \/ \E type \in {TSingle, TShared}, ns \in {Undefined, "ns1"},
                overwrite \in BOOLEAN, version \in Versions :
               create(p, type, "1", AttrA, ns, overwrite, version, UndefinedList)
          \/ \E type \in {TSingle, TShared}, ns \in {Undefined, "ns1"},
                version \in Versions :
               update(p, type, "1", AttrB, ns, version, NoAttrs)
          \/ \E objects \in Arrays(VersionBulkCreateItems) :
               bulkCreate(p, objects, Undefined, TRUE)
          \/ \E objects \in Arrays(VersionBulkUpdateItems) :
               bulkUpdate(p, objects, Undefined)
    \/ createAfterPreflight(p)
    \/ updateAfterPreflight(p)
    \/ dropResult(p)

SpecVersion == Init /\ [][NextVersion]_vars

\* C1 (single-object writes): a create with overwrite or an update that sent
\* its write to the store with an explicit version, while the stored document
\* had another version, failed with Conflict and changed no document.
VersionedOverwrite(r) ==
  /\ r.op \in {"create", "update"}
  /\ r.args.version # NoVersion
  /\ r.op = "create" => r.args.overwrite
  /\ r.writes = 1

StaleSingleWrite(r) ==
  /\ VersionedOverwrite(r)
  /\ r.pre.found
  /\ encodeHitVersion(r.pre) # r.args.version

\* The raw id a bulk item addresses.
BulkItemRawId(op, args, i) ==
  LET o == args.objects[i]
      namespace == normalizeNamespace(args.namespace)
  IN IF op = "bulkUpdate"
     THEN generateRawId(getNamespaceId(o.namespace, namespace), o.type, o.id)
     ELSE IF op = "bulkGet" THEN generateRawId(namespace, o.type, o.id)
     ELSE generateRawId(IF o.initialNamespaces # UndefinedList /\ o.initialNamespaces # <<>>
                        THEN o.initialNamespaces[1] ELSE namespace, o.type, o.id)

\* Item j passes the validation of its call, so that it is sent to the store.
BulkItemValid(r, j) ==
  /\ r.args.objects[j].type \in allowedTypes
  /\ r.op = "bulkCreate" =>
       validateInitialNamespaces(r.args.objects[j].type,
                                 r.args.objects[j].initialNamespaces) = Undefined
  /\ r.op = "bulkUpdate" => r.args.objects[j].namespace # ALL_NAMESPACES_STRING

\* No other item of the call can write the document that item i addresses.
BulkItemAlone(r, i) ==
  \A j \in 1..Len(r.args.objects) :
    (j # i /\ r.op # "bulkGet" /\ BulkItemValid(r, j)) =>
      BulkItemRawId(r.op, r.args, j) # BulkItemRawId(r.op, r.args, i)

StaleBulkItem(r, i) ==
  /\ r.op \in {"bulkCreate", "bulkUpdate"}
  /\ r.err = Undefined
  /\ r.op = "bulkCreate" => r.args.overwrite
  /\ i \in 1..Len(r.args.objects)
  /\ r.args.objects[i].version # NoVersion
  /\ BulkItemValid(r, i)
  /\ BulkItemAlone(r, i)
  /\ EsGet(r.before, BulkItemRawId(r.op, r.args, i)).found
  /\ encodeHitVersion(EsGet(r.before, BulkItemRawId(r.op, r.args, i)))
       # r.args.objects[i].version

\* C1: every write that carries an explicit version and reaches the store
\* while the stored document has another version fails with Conflict (the
\* call for create with overwrite and update, the item for bulkCreate with
\* overwrite and bulkUpdate) and leaves the stored document unchanged.
C1_StaleVersionConflicts ==
  \A p \in Procs :
    /\ StaleSingleWrite(res[p]) =>
         /\ res[p].err = "Conflict"
         /\ res[p].post = res[p].pre
         /\ res[p].touched = {}
    /\ \A i \in 1..MaxBulk :
         StaleBulkItem(res[p], i) =>
           /\ res[p].slots[i].error = "Conflict"
           /\ EsGet(res[p].after, BulkItemRawId(res[p].op, res[p].args, i))
                = EsGet(res[p].before, BulkItemRawId(res[p].op, res[p].args, i))

\* C1 witness: an update that carried a stale version was refused with Conflict
\* while the document it addressed stayed as it was.
C1_Witness ==
  \E p \in Procs :
    /\ StaleSingleWrite(res[p])
    /\ res[p].op = "update"
    /\ res[p].err = "Conflict"
    /\ res[p].post = res[p].pre

\* Reachability of the other three kinds of stale write.
C1_StaleCreateReached ==
  \E p \in Procs : StaleSingleWrite(res[p]) /\ res[p].op = "create"

C1_StaleBulkCreateReached ==
  \E p \in Procs : \E i \in 1..MaxBulk :
    /\ StaleBulkItem(res[p], i)
    /\ res[p].op = "bulkCreate"
    /\ \E j \in 1..Len(res[p].slots) : res[p].slots[j].error = Undefined

C1_StaleBulkUpdateReached ==
  \E p \in Procs : \E i \in 1..MaxBulk :
    /\ StaleBulkItem(res[p], i)
    /\ res[p].op = "bulkUpdate"
    /\ \E j \in 1..Len(res[p].slots) : res[p].slots[j].error = Undefined

----------------------------------------------------------------------------
(* Concurrent updates: every caller reads the object, then updates it under *)
(* the version it read.                                                     *)

\* p updates the object it has just read, under the version it read.
updateAsRead(p, attributes) ==
  /\ res[p].op = "get"
  /\ res[p].err = Undefined
  /\ update(p, res[p].args.type, res[p].args.id, attributes, res[p].args.namespace,
            res[p].obj.version, NoAttrs)

NextRace ==
  \E p \in Procs :
    \/ /\ p = "p1"
       /\ \E type \in {TSingle, TShared} :
            create(p, type, "1", AttrA, Undefined, FALSE, NoVersion, UndefinedList)
    \/ \E type \in {TSingle, TShared} : get(p, type, "1", Undefined)
    \/ \E attributes \in {AttrA, AttrB} : updateAsRead(p, attributes)
    \/ updateAfterPreflight(p)

SpecRace == Init /\ [][NextRace]_vars

\* Two completed updates of the same object under the same version.
SameVersionUpdates(r, q) ==
  /\ r.op = "update" /\ q.op = "update"
  /\ r.args.version # NoVersion
  /\ r.args.version = q.args.version
  /\ r.args.type = q.args.type
  /\ r.args.id = q.args.id
  /\ r.args.namespace = q.args.namespace

\* C2: of the updates of one object that carry the same version at most one
\* succeeds and every other one fails with Conflict; each of these calls sent
\* exactly one write to the store (a conflict is not retried).
C2_OneWinnerPerVersion ==
  \A p \in Procs : \A q \in Procs \ {p} :
    SameVersionUpdates(res[p], res[q]) =>
      /\ res[q].err = Undefined => res[p].err = "Conflict"
      /\ res[p].err \in {Undefined, "Conflict"}
      /\ res[p].writes = 1

\* C2 witness: three callers updated under one version; the first won and
\* the two others got Conflict.
C2_Witness ==
  /\ SameVersionUpdates(res["p1"], res["p2"])
  /\ SameVersionUpdates(res["p1"], res["p3"])
  /\ res["p1"].err = Undefined
  /\ res["p2"].err = "Conflict"
  /\ res["p3"].err = "Conflict"
  /\ res["p1"].args.type = TShared

----------------------------------------------------------------------------
(* Bulk calls whose items fail in every way an item can fail.               *)

BulkCreateItems ==
  {[type |-> TSingle, id |-> "1", attributes |-> AttrA, version |-> NoVersion,
    initialNamespaces |-> UndefinedList],
   [type |-> THidden, id |-> "1", attributes |-> AttrA, version |-> NoVersion,
    initialNamespaces |-> UndefinedList],
   [type |-> TShared, id |-> "1", attributes |-> AttrA, version |-> NoVersion,
    initialNamespaces |-> <<>>],
   [type |-> TShared, id |-> "1", attributes |-> AttrB, version |-> NoVersion,
    initialNamespaces |-> <<"ns1">>],
   [type |-> TSingle, id |-> "2", attributes |-> AttrBad, version |-> NoVersion,
    initialNamespaces |-> UndefinedList]}

BulkGetItems ==
  {[type |-> TSingle, id |-> "1"], [type |-> THidden, id |-> "1"],
   [type |-> TShared, id |-> "1"], [type |-> TSingle, id |-> "2"]}

BulkUpdateItems ==
  {[type |-> TSingle, id |-> "1", attributes |-> AttrB, version |-> NoVersion,
    namespace |-> Undefined],
   [type |-> THidden, id |-> "1", attributes |-> AttrB, version |-> NoVersion,
    namespace |-> Undefined],
   [type |-> TShared, id |-> "1", attributes |-> AttrA, version |-> NoVersion,
    namespace |-> "ns1"],
   [type |-> TSingle, id |-> "1", attributes |-> AttrB, version |-> NoVersion,
    namespace |-> ALL_NAMESPACES_STRING],
   [type |-> TSingle, id |-> "1", attributes |-> AttrA, version |-> encodeVersion(1, 1),
    namespace |-> Undefined]}

NextBulk ==
  \E p \in {"p1"} :
    \/ /\ res[p] = NoRes
       /\ \/ \E objects \in Arrays(BulkCreateItems), overwrite \in BOOLEAN :
               bulkCreate(p, objects, Undefined, overwrite)
          \/ \E objects \in Arrays(BulkGetItems), ns \in {Undefined, "ns1"} :
               bulkGet(p, objects, ns)
          \/ \E objects \in Arrays(BulkUpdateItems) :
               bulkUpdate(p, objects, Undefined)
    \/ bulkCreateAfterPreflight(p)
    \/ bulkUpdateAfterPreflight(p)
    \/ dropResult(p)

SpecBulk == Init /\ [][NextBulk]_vars

IsBulk(r) == r.op \in {"bulkCreate", "bulkGet", "bulkUpdate"}

\* What item i of a returned bulk call is due, told from the index alone: the
\* error kind of its slot, or Undefined for an object.
ExpectedItemError(r, i) ==
  LET o == r.args.objects[i]
      namespace == normalizeNamespace(r.args.namespace)
      doc == EsGet(r.before, BulkItemRawId(r.op, r.args, i))
  IN CASE r.op = "bulkGet" ->
            IF o.type \notin allowedTypes THEN "UnsupportedType"
            ELSE IF ~doc.found \/ ~rawDocExistsInNamespace(doc, namespace)
            THEN "NotFound"
            ELSE Undefined
       [] r.op = "bulkCreate" ->
            IF o.type \notin allowedTypes THEN "UnsupportedType"
            ELSE IF ~BulkItemValid(r, i) THEN "BadRequest"
            ELSE IF doc.found /\ ~rawDocExistsInNamespace(doc, namespace)
            THEN "Conflict"
            ELSE IF doc.found /\ ~r.args.overwrite THEN "Conflict"
            ELSE IF /\ r.args.overwrite
                    /\ o.version # NoVersion
                    /\ (~doc.found \/ encodeHitVersion(doc) # o.version)
            THEN "Conflict"
            ELSE Undefined
       [] OTHER ->
            IF o.type \notin allowedTypes THEN "NotFound"
            ELSE IF ~BulkItemValid(r, i) THEN "BadRequest"
            ELSE IF ~doc.found THEN "NotFound"
            ELSE IF ~rawDocExistsInNamespace(doc, getNamespaceId(o.namespace, namespace))
            THEN "NotFound"
            ELSE IF o.version # NoVersion /\ encodeHitVersion(doc) # o.version
            THEN "Conflict"
            ELSE Undefined

\* The slot of item i answers item i: its error is the one the item is due;
\* an object slot carries what the store holds for the item after the call.
SlotAnswersItem(r, i) ==
  LET o == r.args.objects[i]
      slot == r.slots[i]
      old == EsGet(r.before, BulkItemRawId(r.op, r.args, i))
      new == EsGet(r.after, BulkItemRawId(r.op, r.args, i))
  IN /\ slot.error = ExpectedItemError(r, i)
     /\ slot.error # Undefined => new = old
     /\ slot.error = Undefined =>
          /\ new.found
          /\ slot.version = encodeHitVersion(new)
          /\ r.op = "bulkGet" => new = old /\ slot.attributes = old.source.attributes
          /\ r.op = "bulkCreate" =>
               /\ new.source.attributes = o.attributes
               /\ slot.attributes = o.attributes
               /\ new.seq_no # IF old.found THEN old.seq_no ELSE 0
          /\ r.op = "bulkUpdate" =>
               /\ new.source.attributes = MergeAttributes(old.source.attributes,
                                                          o.attributes)
               /\ slot.attributes = o.attributes
               /\ new.seq_no # old.seq_no

\* C3: a bulkCreate, bulkGet or bulkUpdate that returns has one slot per input
\* item, slot i carries the type and the id of item i, and each item gets the
\* outcome that is due to it alone, whatever the other items of the call are
\* (checked for every item whose document no other item of the call writes).
C3_BulkSlotsAlignAndAreIndependent ==
  \A p \in Procs :
    (IsBulk(res[p]) /\ res[p].err = Undefined) =>
      /\ Len(res[p].slots) = Len(res[p].args.objects)
      /\ \A i \in 1..Len(res[p].args.objects) :
           /\ res[p].slots[i].type = res[p].args.objects[i].type
           /\ res[p].slots[i].id = res[p].args.objects[i].id
           /\ BulkItemAlone(res[p], i) => SlotAnswersItem(res[p], i)

\* A returned bulk call with a failing item before a succeeding one.
FailedThenSucceeded(r) ==
  /\ IsBulk(r) /\ r.err = Undefined
  /\ Len(r.slots) = MaxBulk
  /\ r.slots[1].error # Undefined
  /\ r.slots[MaxBulk].error = Undefined
  /\ BulkItemAlone(r, MaxBulk)

\* C3 witness: a bulkUpdate returned an error for its first item and the
\* updated object for its last one.
C3_Witness ==
  \E p \in Procs : FailedThenSucceeded(res[p]) /\ res[p].op = "bulkUpdate"

C3_BulkCreateReached ==
  \E p \in Procs : FailedThenSucceeded(res[p]) /\ res[p].op = "bulkCreate"

C3_BulkGetReached ==
  \E p \in Procs : FailedThenSucceeded(res[p]) /\ res[p].op = "bulkGet"

\* C4: a bulk call never fails as a whole because of one of its items: it
\* returns, and every slot is an object or an error record.
C4_BulkNeverFailsAsAWhole ==
  \A p \in Procs :
    IsBulk(res[p]) =>
      /\ res[p].err = Undefined
      /\ Len(res[p].slots) = Len(res[p].args.objects)

\* The whole bulkCreate failed on the document of one item.
C4_WholeCallFailed ==
  \E p \in Procs :
    /\ res[p].op = "bulkCreate"
    /\ res[p].err = "MigrationError"
    /\ \E i \in 1..Len(res[p].args.objects) :
         /\ BulkItemValid(res[p], i)
         /\ ~migrateDocumentThrows(res[p].args.objects[i].attributes)

\* Item i of a bulkCreate or bulkUpdate is valid and of a multi-namespace
\* type, so that its document is read before the write.
NeedsPreflight(r, i) ==
  BulkItemValid(r, i) /\ isMultiNamespace(r.args.objects[i].type)

\* Item i is valid and its preflight, if it has one, found nothing against
\* it: bulkCreate drops an item whose document exists in other namespaces
\* only, bulkUpdate one whose document is not in the item's namespace.
SurvivesPreflight(r, i) ==
  LET o == r.args.objects[i]
      namespace == normalizeNamespace(r.args.namespace)
      doc == EsGet(r.before, BulkItemRawId(r.op, r.args, i))
  IN /\ BulkItemValid(r, i)
     /\ NeedsPreflight(r, i) =>
          IF r.op = "bulkCreate"
          THEN ~(doc.found /\ ~rawDocExistsInNamespace(doc, namespace))
          ELSE /\ doc.found
               /\ rawDocExistsInNamespace(doc, getNamespaceId(o.namespace, namespace))

\* C29: a bulkCreate or bulkUpdate call sends at most one multi-get and at
\* most one bulk write; the multi-get exactly when a valid item needs a
\* preflight, and no bulk write when no item survives validation and
\* preflight, in which case the index is left as it was.
C29_OneReadOneWritePerBulk ==
  \A p \in Procs :
    (res[p] # NoRes /\ res[p].op \in {"bulkCreate", "bulkUpdate"}) =>
      LET r == res[p]
          items == 1..Len(r.args.objects)
      IN /\ r.reads \in {0, 1} /\ r.writes \in {0, 1}
         /\ ~normalizeNamespaceThrows(r.args.namespace) =>
              (r.reads = 1 <=> \E i \in items : NeedsPreflight(r, i))
         /\ normalizeNamespaceThrows(r.args.namespace) => r.reads = 0
         /\ r.writes = 1 => \E i \in items : SurvivesPreflight(r, i)
         /\ r.err = Undefined =>
              (r.writes = 1 <=> \E i \in items : SurvivesPreflight(r, i))
         /\ r.writes = 0 => r.after = r.before

\* A bulkUpdate of two items of a shareable type sent one multi-get and one
\* bulk write.
C29_Witness ==
  LET r == res["p1"] IN
  /\ r # NoRes /\ r.op = "bulkUpdate" /\ Len(r.args.objects) = 2
  /\ NeedsPreflight(r, 1) /\ NeedsPreflight(r, 2)
  /\ r.reads = 1 /\ r.writes = 1

\* A bulkCreate whose only valid item was dropped by the preflight sent the
\* multi-get and no bulk write.
C29_NoWriteReached ==
  LET r == res["p1"] IN
  /\ r # NoRes /\ r.op = "bulkCreate" /\ r.err = Undefined
  /\ Len(r.args.objects) > 0
  /\ r.reads = 1 /\ r.writes = 0

\* A bulkCreate of single-namespace objects sent no multi-get.
C29_NoReadReached ==
  LET r == res["p1"] IN
  /\ r # NoRes /\ r.op = "bulkCreate" /\ r.err = Undefined
  /\ Len(r.args.objects) = 2
  /\ r.reads = 0 /\ r.writes = 1

----------------------------------------------------------------------------
(* Objects of multi-namespace types, seen from several namespaces.          *)

OneCounter == <<[fieldName |-> "count", incrementBy |-> <<>>]>>

MultiBulkCreateItems ==
  {[type |-> TShared, id |-> "1", attributes |-> AttrB, version |-> NoVersion,
    initialNamespaces |-> n] : n \in {UndefinedList, <<"ns2">>}}

NextMulti ==
  \E p \in {"p1"} :
    \/ /\ res[p] = NoRes
       /\ \/ \E type \in {TShared, TIsolated}, ns \in {Undefined, "ns1"},
                overwrite \in BOOLEAN,
                initialNamespaces \in {UndefinedList, <<>>, <<"ns2">>, <<"ns1", "ns2">>,
                                       <<ALL_NAMESPACES_STRING>>} :
               create(p, type, "1", AttrA, ns, overwrite, NoVersion, initialNamespaces)
          \/ \E objects \in Arrays(MultiBulkCreateItems), ns \in {Undefined, "ns1"} :
               bulkCreate(p, objects, ns, TRUE)
          \/ \E ns \in {Undefined, "ns1", "ns2"}, upsert \in {NoAttrs, AttrA} :
               update(p, TShared, "1", AttrB, ns, NoVersion, upsert)
          \/ \E ns \in {Undefined, "ns1", "ns2"}, force \in BOOLEAN :
               delete(p, TShared, "1", ns, force)
          \/ \E ns \in {Undefined, "ns1", "ns2"} :
               incrementCounter(p, TShared, "1", OneCounter, ns, FALSE, NoAttrs)
          \/ \E namespace \in {"default", "ns1", "ns2"} : deleteByNamespace(p, namespace)
          \/ \E spacesToAdd \in {<<>>, <<"ns2">>},
                spacesToRemove \in {<<>>, <<"default">>, <<"ns1">>},
                ns \in {Undefined, "ns1"} :
               updateObjectsSpaces(p, TShared, "1", spacesToAdd, spacesToRemove, ns)
    \/ createAfterPreflight(p)
    \/ bulkCreateAfterPreflight(p)
    \/ updateAfterPreflight(p)
    \/ deleteAfterPreflight(p)
    \/ incrementCounterAfterPreflight(p)
    \/ updateObjectsSpacesAfterPreflight(p)
    \/ dropResult(p)

SpecMulti == Init /\ [][NextMulti]_vars

\* The document of the multi-namespace object a single-object call addresses,
\* as the index held it when the call completed its last step.
MultiTarget(r) == EsGet(r.before, generateRawId(Undefined, r.args.type, r.args.id))

\* The object exists, but in neither the namespace of the call nor '*'.
ExistsElsewhere(r) ==
  /\ isMultiNamespace(r.args.type)
  /\ ~normalizeNamespaceThrows(r.args.namespace)
  /\ MultiTarget(r).found
  /\ ~Includes(MultiTarget(r).source.namespaces,
               namespaceIdToString(normalizeNamespace(r.args.namespace)))
  /\ ~Includes(MultiTarget(r).source.namespaces, ALL_NAMESPACES_STRING)

\* C5: on a multi-namespace object that exists in neither the namespace of
\* the call nor '*', update and delete fail with NotFound, create with
\* overwrite (given valid initialNamespaces) and incrementCounter fail with
\* Conflict; none of them sends a write and the index stays as it was.
C5_ElsewhereIsRefusedWithoutWrite ==
  \A p \in Procs :
    LET r == res[p] IN
    /\ (r.op \in {"update", "delete"} /\ ExistsElsewhere(r)) =>
         r.err = "NotFound" /\ r.writes = 0 /\ r.after = r.before
    /\ (r.op = "incrementCounter" /\ ExistsElsewhere(r)) =>
         r.err = "Conflict" /\ r.writes = 0 /\ r.after = r.before
    /\ ( /\ r.op = "create"
         /\ r.args.overwrite
         /\ validateInitialNamespaces(r.args.type, r.args.initialNamespaces) = Undefined
         /\ ExistsElsewhere(r) ) =>
         r.err = "Conflict" /\ r.writes = 0 /\ r.after = r.before

\* C5 witness: an update from a namespace the object is not in got NotFound.
C5_Witness ==
  \E p \in Procs :
    res[p].op = "update" /\ ExistsElsewhere(res[p]) /\ res[p].err = "NotFound"

C5_DeleteReached ==
  \E p \in Procs :
    res[p].op = "delete" /\ res[p].args.force /\ ExistsElsewhere(res[p])

C5_CreateReached ==
  \E p \in Procs :
    /\ res[p].op = "create" /\ res[p].args.overwrite /\ ExistsElsewhere(res[p])
    /\ res[p].args.initialNamespaces = <<"ns2">>
    /\ res[p].err = "Conflict"

C5_IncrementCounterReached ==
  \E p \in Procs : res[p].op = "incrementCounter" /\ ExistsElsewhere(res[p])

\* The object exists in the namespace of the call (or in '*').
ExistsHere(r) ==
  /\ isMultiNamespace(r.args.type)
  /\ ~normalizeNamespaceThrows(r.args.namespace)
  /\ MultiTarget(r).found
  /\ rawDocExistsInNamespace(MultiTarget(r), normalizeNamespace(r.args.namespace))

\* The namespaces list of the object after the call is the one before it.
KeepsNamespaces(r) ==
  LET new == EsGet(r.after, generateRawId(Undefined, r.args.type, r.args.id)) IN
  /\ new.found
  /\ new.source.namespaces = MultiTarget(r).source.namespaces

\* The same for item i of a bulkCreate.
ItemKeepsNamespaces(r, i) ==
  LET old == EsGet(r.before, BulkItemRawId(r.op, r.args, i))
      new == EsGet(r.after, BulkItemRawId(r.op, r.args, i))
  IN ( /\ isMultiNamespace(r.args.objects[i].type)
       /\ old.found
       /\ rawDocExistsInNamespace(old, normalizeNamespace(r.args.namespace))
       /\ r.slots[i].error = Undefined ) =>
       new.found /\ new.source.namespaces = old.source.namespaces

\* C6: a successful create with overwrite, bulkCreate with overwrite, update
\* or incrementCounter on an existing multi-namespace object that is in the
\* namespace of the call leaves the stored namespaces list as it was.
C6_NamespacesListIsPreserved ==
  \A p \in Procs :
    LET r == res[p] IN
    /\ ( /\ r.op \in {"create", "update", "incrementCounter"}
         /\ r.op = "create" => r.args.overwrite
         /\ r.err = Undefined
         /\ ExistsHere(r) ) => KeepsNamespaces(r)
    /\ (r.op = "bulkCreate" /\ r.args.overwrite /\ r.err = Undefined) =>
         \A i \in 1..Len(r.args.objects) : ItemKeepsNamespaces(r, i)

\* C6, without initialNamespaces: the calls that supply none preserve the list
\* (when no other call changes the object between preflight and write).
C6_PreservedWithoutInitialNamespaces ==
  \A p \in Procs :
    LET r == res[p] IN
    /\ ( /\ r.op \in {"create", "update", "incrementCounter"}
         /\ r.op = "create" =>
              r.args.overwrite /\ r.args.initialNamespaces = UndefinedList
         /\ r.err = Undefined
         /\ ExistsHere(r) ) => KeepsNamespaces(r)
    /\ (r.op = "bulkCreate" /\ r.args.overwrite /\ r.err = Undefined) =>
         \A i \in 1..Len(r.args.objects) :
           (r.args.objects[i].initialNamespaces = UndefinedList /\ BulkItemAlone(r, i))
             => ItemKeepsNamespaces(r, i)

\* A create with overwrite and initialNamespaces replaced the list of an
\* object that was in the namespace of the call.
C6_ListReplaced ==
  \E p \in Procs :
    /\ res[p].op = "create" /\ res[p].args.overwrite /\ res[p].err = Undefined
    /\ ExistsHere(res[p])
    /\ ~KeepsNamespaces(res[p])

\* C7: every stored document of a multi-namespace type has a namespaces list
\* with at least one namespace; a deleteByNamespace or an updateObjectsSpaces
\* that removes the last namespace of an object removes its document.
C7_NamespacesNeverEmpty ==
  /\ \A k \in DOMAIN docs :
       isMultiNamespace(docs[k].source.type) =>
         /\ docs[k].source.namespaces # UndefinedList
         /\ Len(docs[k].source.namespaces) > 0
  /\ \A p \in Procs :
       LET r == res[p] IN
       /\ r.op = "deleteByNamespace" =>
            \A k \in DOMAIN r.before :
              ( /\ isMultiNamespace(r.before[k].source.type)
                /\ r.before[k].source.namespaces = <<r.args.namespace>> )
                => k \notin DOMAIN r.after
       /\ ( /\ r.op = "updateObjectsSpaces" /\ r.err = Undefined
            /\ r.args.spacesToAdd = <<>>
            /\ \A i \in 1..Len(MultiTarget(r).source.namespaces) :
                 Includes(r.args.spacesToRemove, MultiTarget(r).source.namespaces[i]) )
            => ~EsGet(r.after, generateRawId(Undefined, r.args.type, r.args.id)).found

\* C7 witness: deleteByNamespace swept the only namespace of a shareable
\* object and its document is gone.
C7_Witness ==
  \E p \in Procs :
    /\ res[p].op = "deleteByNamespace"
    /\ \E k \in DOMAIN res[p].before :
         /\ isMultiNamespace(res[p].before[k].source.type)
         /\ res[p].before[k].source.namespaces = <<res[p].args.namespace>>
         /\ k \notin DOMAIN docs

C7_LastSpaceRemovedReached ==
  \E p \in Procs :
    /\ res[p].op = "updateObjectsSpaces" /\ res[p].err = Undefined
    /\ MultiTarget(res[p]).found
    /\ ~EsGet(res[p].after, generateRawId(Undefined, res[p].args.type, res[p].args.id)).found

C7_ListShortenedReached ==
  \E p \in Procs :
    /\ res[p].op = "deleteByNamespace"
    /\ \E k \in DOMAIN res[p].before :
         /\ k \in DOMAIN res[p].after
         /\ res[p].after[k].source.namespaces # res[p].before[k].source.namespaces

----------------------------------------------------------------------------
(* Objects of single-namespace and namespace-agnostic types in three        *)
(* namespaces.                                                              *)

NsBulkCreateItems ==
  {[type |-> TSingle, id |-> "1", attributes |-> AttrB, version |-> NoVersion,
    initialNamespaces |-> <<DEFAULT_NAMESPACE_STRING>>],
   [type |-> TAgnostic, id |-> "1", attributes |-> AttrB, version |-> NoVersion,
    initialNamespaces |-> UndefinedList]}

NsBulkGetItems == {[type |-> TSingle, id |-> "1"], [type |-> TAgnostic, id |-> "1"]}

NextNs ==
  \E p \in {"p1"} :
    \/ /\ res[p] = NoRes
       /\ \/ \E type \in {TSingle, TAgnostic}, ns \in {Undefined, "ns1", "ns2"},
                initialNamespaces \in {UndefinedList, <<DEFAULT_NAMESPACE_STRING>>} :
               create(p, type, "1", AttrA, ns, FALSE, NoVersion, initialNamespaces)
          \/ \E objects \in Arrays(NsBulkCreateItems) :
               bulkCreate(p, objects, "ns1", TRUE)
          \/ \E type \in {TSingle, TAgnostic}, upsert \in {NoAttrs, AttrA} :
               update(p, type, "1", AttrB, "ns1", NoVersion, upsert)
          \/ \E ns \in {Undefined, "ns1"} : delete(p, TSingle, "1", ns, FALSE)
          \/ \E type \in {TSingle, TAgnostic} :
               incrementCounter(p, type, "1", OneCounter, "ns1", FALSE, NoAttrs)
          \/ \E ns \in {Undefined, "ns1", "ns2"} : get(p, TSingle, "1", ns)
          \/ \E objects \in Arrays(NsBulkGetItems), ns \in {Undefined, "ns1"} :
               bulkGet(p, objects, ns)
          \/ \E ns \in {Undefined, "ns1"} : resolve(p, TSingle, "1", ns)
    \/ resolveGet(p)
    \/ \E ok \in BOOLEAN : resolveStats(p, ok)
    \/ dropResult(p)

SpecNs == Init /\ [][NextNs]_vars

\* C8: a stored document of a namespace-agnostic type has neither a namespace
\* nor a namespaces list; a stored document of a single-namespace type has no
\* namespaces list and one namespace, which is absent (never the literal
\* 'default') for the default namespace.
C8_NamespaceFieldsFollowTheType ==
  \A k \in DOMAIN docs :
    /\ isNamespaceAgnostic(docs[k].source.type) =>
         /\ docs[k].source.namespace = Undefined
         /\ docs[k].source.namespaces = UndefinedList
    /\ isSingleNamespace(docs[k].source.type) =>
         /\ docs[k].source.namespaces = UndefinedList
         /\ docs[k].source.namespace # DEFAULT_NAMESPACE_STRING

\* The part of C8 that holds: the documents of namespace-agnostic types, and
\* the absence of a namespaces list on those of single-namespace types.
C8_AgnosticCarriesNoNamespace ==
  \A k \in DOMAIN docs :
    /\ isNamespaceAgnostic(docs[k].source.type) =>
         /\ docs[k].source.namespace = Undefined
         /\ docs[k].source.namespaces = UndefinedList
    /\ isSingleNamespace(docs[k].source.type) =>
         docs[k].source.namespaces = UndefinedList

\* A document of a single-namespace type is stored with the literal
\* namespace 'default'.
C8_LiteralDefaultStored ==
  \E k \in DOMAIN docs :
    /\ isSingleNamespace(docs[k].source.type)
    /\ docs[k].source.namespace = DEFAULT_NAMESPACE_STRING

\* The namespace a call on a single-namespace type works in: the first of
\* the initialNamespaces of a create, else the namespace of the call.
EffectiveNamespace(r) ==
  IF r.op = "create" /\ r.args.initialNamespaces # UndefinedList
  THEN r.args.initialNamespaces[1]
  ELSE normalizeNamespace(r.args.namespace)

OwnRawId(r) == generateRawId(EffectiveNamespace(r), r.args.type, r.args.id)

\* The object a read returned is the document of its own namespace.
ReadsOwnDocument(r, obj) ==
  LET doc == EsGet(r.before, OwnRawId(r)) IN
  IF doc.found
  THEN /\ r.err = Undefined
       /\ obj.attributes = doc.source.attributes
       /\ obj.version = encodeHitVersion(doc)
       /\ obj.namespaces = <<namespaceIdToString(EffectiveNamespace(r))>>
  ELSE r.err = "NotFound"

\* Slot i of a bulkGet is the document of the namespace of the call.
SlotReadsOwnDocument(r, i) ==
  LET doc == EsGet(r.before, BulkItemRawId(r.op, r.args, i)) IN
  IF doc.found
  THEN /\ r.slots[i].error = Undefined
       /\ r.slots[i].attributes = doc.source.attributes
       /\ r.slots[i].version = encodeHitVersion(doc)
  ELSE r.slots[i].error = "NotFound"

\* C9: the objects of a single-namespace type with one type and id in two
\* namespaces are two documents; get, bulkGet and resolve from a namespace
\* answer with the document of that namespace or NotFound; create, update and
\* delete in a namespace change no document but the one of that namespace.
C9_SingleNamespaceIsolation ==
  /\ \A a \in {Undefined, "ns1", "ns2"} : \A b \in {Undefined, "ns1", "ns2"} \ {a} :
       generateRawId(a, TSingle, "1") # generateRawId(b, TSingle, "1")
  /\ \A p \in Procs :
       LET r == res[p] IN
       /\ (r.op = "get" /\ isSingleNamespace(r.args.type)) =>
            ReadsOwnDocument(r, r.obj)
       /\ (r.op = "resolve" /\ isSingleNamespace(r.args.type)) =>
            ReadsOwnDocument(r, IF r.err = Undefined THEN r.obj.saved_object ELSE NoObj)
       /\ r.op = "bulkGet" =>
            \A i \in 1..Len(r.args.objects) :
              isSingleNamespace(r.args.objects[i].type) => SlotReadsOwnDocument(r, i)
       /\ (r.op \in {"create", "update", "delete"} /\ isSingleNamespace(r.args.type)) =>
            r.touched \subseteq {OwnRawId(r)}

\* C9 witness: a get from one namespace answered NotFound while the object
\* with that type and id exists in another namespace.
C9_Witness ==
  \E p \in Procs :
    /\ res[p].op = "get" /\ res[p].err = "NotFound"
    /\ res[p].args.namespace = "ns2"
    /\ EsGet(docs, generateRawId("ns1", TSingle, "1")).found

\* Two namespaces hold different objects under one type and id, and an
\* update in one of them has left the other as it was.
C9_UpdateBesideReached ==
  \E p \in Procs :
    /\ res[p].op = "update" /\ res[p].err = Undefined
    /\ res[p].args.namespace = "ns1"
    /\ res[p].touched = {generateRawId("ns1", TSingle, "1")}
    /\ EsGet(docs, generateRawId(Undefined, TSingle, "1")).found
    /\ EsGet(docs, generateRawId(Undefined, TSingle, "1")).source.attributes
         # EsGet(docs, generateRawId("ns1", TSingle, "1")).source.attributes

C9_ResolveReached ==
  \E p \in Procs :
    /\ res[p].op = "resolve" /\ res[p].err = Undefined
    /\ res[p].args.namespace = "ns1"
    /\ EsGet(docs, generateRawId(Undefined, TSingle, "1")).found

----------------------------------------------------------------------------
(* resolve, over every arrangement of an object, a legacy URL alias of its  *)
(* id in namespace ns1, and the target of the alias.                        *)

\* An object of the type: in ns1 (and, if shareable, in the default
\* namespace too), or in ns2 only.
PlacedObject(type, id, attributes, place) ==
  LET ns == IF place = "here" THEN "ns1" ELSE "ns2" IN
  [id |-> generateRawId(ns, type, id),
   doc |-> Stored([type |-> type, attributes |-> attributes,
                   namespace |-> IF isSingleNamespace(type) THEN ns ELSE Undefined,
                   namespaces |-> IF isSingleNamespace(type) THEN UndefinedList
                                  ELSE IF place = "here"
                                  THEN <<DEFAULT_NAMESPACE_STRING, "ns1">>
                                  ELSE <<"ns2">>], 0)]

\* The legacy URL alias of (ns1, type, "1"), pointing at id "2".
PlacedAlias(type, disabled) ==
  [id |-> generateRawLegacyUrlAliasId("ns1", type, "1"),
   doc |-> Stored([type |-> LEGACY_URL_ALIAS_TYPE,
                   attributes |-> [targetId |-> "2", disabled |-> disabled],
                   namespace |-> Undefined, namespaces |-> UndefinedList], 0)]

Arrangement(type, exact, target, alias) ==
  (IF exact = "absent" THEN {} ELSE {PlacedObject(type, "1", AttrA, exact)})
    \cup (IF target = "absent" THEN {} ELSE {PlacedObject(type, "2", AttrB, target)})
    \cup (IF alias = "none" THEN {} ELSE {PlacedAlias(type, alias = "disabled")})

IndexOf(entries) ==
  [k \in {e.id : e \in entries} |-> (CHOOSE e \in entries : e.id = k).doc]

InitResolve ==
  /\ \E type \in {TSingle, TShared}, exact \in {"absent", "here", "elsewhere"},
        target \in {"absent", "here", "elsewhere"},
        alias \in {"none", "enabled", "disabled"} :
       docs = IndexOf(Arrangement(type, exact, target, alias))
  /\ nextSeq = 1
  /\ call = [p \in Procs |-> Idle]
  /\ res = [p \in Procs |-> NoRes]

NextResolve ==
  \E p \in {"p1"} :
    \/ /\ res[p] = NoRes
       /\ \E type \in {TSingle, TShared, THidden}, ns \in {Undefined, "ns1"} :
            resolve(p, type, "1", ns)
    \/ resolveGet(p)
    \/ resolveMget(p)
    \/ \E ok \in BOOLEAN : resolveStats(p, ok)
    \/ dropResult(p)

SpecResolve == InitResolve /\ [][NextResolve]_vars

\* What a resolve call found in the index, told from the index alone.
ExactExists(r) ==
  LET doc == EsGet(r.before, generateRawId(normalizeNamespace(r.args.namespace),
                                           r.args.type, r.args.id))
  IN doc.found /\ rawDocExistsInNamespace(doc, normalizeNamespace(r.args.namespace))

LiveAlias(r) ==
  /\ normalizeNamespace(r.args.namespace) # Undefined
  /\ LET a == EsGet(r.before, generateRawLegacyUrlAliasId(
                                normalizeNamespace(r.args.namespace),
                                r.args.type, r.args.id))
     IN a.found /\ ~a.source.attributes.disabled

AliasTargetId(r) ==
  EsGet(r.before, generateRawLegacyUrlAliasId(normalizeNamespace(r.args.namespace),
                                              r.args.type, r.args.id)
       ).source.attributes.targetId

TargetExists(r) ==
  /\ LiveAlias(r)
  /\ LET doc == EsGet(r.before, generateRawId(normalizeNamespace(r.args.namespace),
                                              r.args.type, AliasTargetId(r)))
     IN doc.found /\ rawDocExistsInNamespace(doc, normalizeNamespace(r.args.namespace))

\* The call returned the object stored under id, with the outcome.
ResolvedTo(r, id, outcome, aliasTargetId) ==
  LET doc == EsGet(r.before, generateRawId(normalizeNamespace(r.args.namespace),
                                           r.args.type, id))
  IN /\ r.err = Undefined
     /\ r.obj.outcome = outcome
     /\ r.obj.aliasTargetId = aliasTargetId
     /\ r.obj.saved_object.id = id
     /\ r.obj.saved_object.type = r.args.type
     /\ r.obj.saved_object.attributes = doc.source.attributes
     /\ r.obj.saved_object.version = encodeHitVersion(doc)

\* C10: resolve returns exactMatch with the object of the id when only that
\* object exists, aliasMatch with the target object (under the target id)
\* when only the target of a non-disabled alias exists, conflict with the
\* object of the id and the target id when both exist, and throws NotFound
\* when neither exists.
C10_ResolveOutcomes ==
  \A p \in Procs :
    LET r == res[p] IN
    r.op = "resolve" =>
      /\ (ExactExists(r) /\ ~TargetExists(r)) =>
           ResolvedTo(r, r.args.id, "exactMatch", Undefined)
      /\ (~ExactExists(r) /\ TargetExists(r)) =>
           ResolvedTo(r, AliasTargetId(r), "aliasMatch", AliasTargetId(r))
      /\ (ExactExists(r) /\ TargetExists(r)) =>
           ResolvedTo(r, r.args.id, "conflict", AliasTargetId(r))
      /\ (~ExactExists(r) /\ ~TargetExists(r)) =>
           r.err = "NotFound" /\ r.obj = NoObj

\* C10 witness: a resolve answered with the target of an alias, under the
\* target id, while no object has the requested id in the namespace.
C10_Witness ==
  \E p \in Procs :
    /\ res[p].op = "resolve"
    /\ ~ExactExists(res[p]) /\ TargetExists(res[p])
    /\ res[p].obj.outcome = "aliasMatch"
    /\ res[p].obj.saved_object.id = "2"

C10_ConflictReached ==
  \E p \in Procs :
    res[p].op = "resolve" /\ res[p].err = Undefined /\ res[p].obj.outcome = "conflict"

C10_ExactBesideDisabledAliasReached ==
  \E p \in Procs :
    /\ res[p].op = "resolve" /\ res[p].err = Undefined
    /\ res[p].obj.outcome = "exactMatch"
    /\ res[p].args.namespace = "ns1"
    /\ EsGet(docs, generateRawLegacyUrlAliasId("ns1", res[p].args.type, "1")).found
    /\ EsGet(docs, generateRawId("ns1", res[p].args.type, "2")).found

C10_NotFoundBesideElsewhereReached ==
  \E p \in Procs :
    /\ res[p].op = "resolve" /\ res[p].err = "NotFound"
    /\ res[p].args.type = TShared
    /\ LiveAlias(res[p])
    /\ EsGet(docs, generateRawId("ns1", TShared, "2")).found

\* The counter document of the usage statistics.
StatsRawId == generateRawId(Undefined, CORE_USAGE_STATS_TYPE, CORE_USAGE_STATS_ID)

\* The value of a counter of the usage statistics in an index, 0 if unset.
StatValue(d, field) ==
  LET doc == EsGet(d, StatsRawId) IN
  IF doc.found /\ field \in DOMAIN doc.source.attributes
  THEN doc.source.attributes[field] ELSE 0

\* The counter that belongs to the way a resolve call ended.
StatOfOutcome(r) ==
  IF r.err = "NotFound" THEN NOT_FOUND
  ELSE IF r.obj.outcome = "exactMatch" THEN EXACT_MATCH
  ELSE IF r.obj.outcome = "aliasMatch" THEN ALIAS_MATCH
  ELSE CONFLICT

\* The call made its one attempt on the counter of its outcome and on the
\* total: both grew by one if the update went through, nothing changed if not.
CountedOnce(r) ==
  /\ "stat" \in DOMAIN r
  /\ r.stat = StatOfOutcome(r)
  /\ \A f \in {EXACT_MATCH, ALIAS_MATCH, CONFLICT, NOT_FOUND, TOTAL} :
       StatValue(r.after, f) =
         StatValue(r.before, f) + (IF r.statOk /\ f \in {r.stat, TOTAL} THEN 1 ELSE 0)
  /\ \A k \in (DOMAIN r.before \cup DOMAIN r.after) \ {StatsRawId} :
       EsGet(r.after, k) = EsGet(r.before, k)

\* The call ended as the index alone decides.
EndsAsTheIndexDecides(r) ==
  /\ r.err \in {Undefined, "NotFound"}
  /\ (r.err = "NotFound") = (~ExactExists(r) /\ ~TargetExists(r))
  /\ r.err = Undefined =>
       r.obj.outcome = (IF ExactExists(r) /\ TargetExists(r) THEN "conflict"
                        ELSE IF ExactExists(r) THEN "exactMatch" ELSE "aliasMatch")

\* C11 as stated: every resolve call that ends in exactMatch, aliasMatch,
\* conflict or NotFound makes exactly one attempt on the counter of its
\* outcome and on the total, and ends the same whether the attempt fails.
C11_EveryOutcomeIsCounted ==
  \A p \in Procs :
    LET r == res[p] IN
    (r.op = "resolve" /\ r.err \in {Undefined, "NotFound"}) =>
      EndsAsTheIndexDecides(r) /\ CountedOnce(r)

\* C11 amended: every resolve call on a type of the allowed set that ends in
\* exactMatch, aliasMatch, conflict or NotFound makes exactly one attempt on
\* the counter of its outcome and on the total, and ends the same whether
\* the attempt fails; a call on a type outside the allowed set fails with
\* NotFound without any store request, so without an attempt on the counter.
C11_AllowedTypeOutcomeIsCounted ==
  \A p \in Procs :
    LET r == res[p] IN
    r.op = "resolve" =>
      IF r.args.type \in allowedTypes
      THEN EndsAsTheIndexDecides(r) /\ CountedOnce(r)
      ELSE /\ r.err = "NotFound"
           /\ "stat" \notin DOMAIN r
           /\ r.reads = 0 /\ r.writes = 0
           /\ r.after = r.before

\* C11 witness: the counter update of a resolve that found the alias target
\* failed, and the call still returned aliasMatch.
C11_Witness ==
  \E p \in Procs :
    /\ res[p].op = "resolve"
    /\ "stat" \in DOMAIN res[p]
    /\ ~res[p].statOk
    /\ res[p].err = Undefined
    /\ res[p].obj.outcome = "aliasMatch"
    /\ res[p].stat = ALIAS_MATCH

C11_CountedTwiceOverReached ==
  StatValue(docs, TOTAL) >= 2 /\ StatValue(docs, NOT_FOUND) >= 1
    /\ StatValue(docs, EXACT_MATCH) >= 1

C11_UncountedNotFoundReached ==
  \E p \in Procs :
    /\ res[p].op = "resolve" /\ res[p].err = "NotFound"
    /\ res[p].args.type = THidden
    /\ "stat" \notin DOMAIN res[p]

----------------------------------------------------------------------------
(* Counters: callers increment the counters of one object, each caller      *)
(* once, so that the results still held tell every call that was made.      *)

\* The counterFields arguments: one field by its name alone, with a count of
\* 2, another field, and one field named twice.
CounterFieldLists ==
  {<<[fieldName |-> "views", incrementBy |-> <<>>]>>,
   <<[fieldName |-> "views", incrementBy |-> <<2>>]>>,
   <<[fieldName |-> "clicks", incrementBy |-> <<>>]>>,
   <<[fieldName |-> "views", incrementBy |-> <<>>],
     [fieldName |-> "views", incrementBy |-> <<>>]>>}

NextCounter ==
  \E p \in Procs :
    \/ /\ res[p] = NoRes
       /\ \E type \in {TSingle, TShared}, counterFields \in CounterFieldLists,
             initialize \in BOOLEAN :
            incrementCounter(p, type, "1", counterFields, Undefined, initialize, NoAttrs)
    \/ incrementCounterAfterPreflight(p)

SpecCounter == Init /\ [][NextCounter]_vars

\* The stored value of a counter of a document, 0 while it has none.
CounterValue(d, rawId, f) ==
  LET doc == EsGet(d, rawId) IN
  IF doc.found /\ f \in DOMAIN doc.source.attributes
  THEN doc.source.attributes[f] ELSE 0

\* Whether a document holds the counter.
HasCounter(d, rawId, f) ==
  EsGet(d, rawId).found /\ f \in DOMAIN EsGet(d, rawId).source.attributes

\* What a call asked to add to field f: the counts of its entries for f, a
\* count left out being 1, and every count being 0 under initialize.
RECURSIVE AskedDelta(_, _, _, _)
AskedDelta(counterFields, initialize, f, n) ==
  IF n = 0 THEN 0
  ELSE AskedDelta(counterFields, initialize, f, n - 1)
       + (IF counterFields[n].fieldName # f \/ initialize THEN 0
          ELSE IF counterFields[n].incrementBy = <<>> THEN 1
          ELSE counterFields[n].incrementBy[1])

\* The delta of the call whose result p holds, if it incremented f of rawId
\* and returned; 0 otherwise.
ReturnedDelta(p, rawId, f) ==
  IF res[p].op = "incrementCounter" /\ res[p].err = Undefined /\ res[p].rawId = rawId
  THEN AskedDelta(res[p].args.counterFields, res[p].args.initialize, f,
                  Len(res[p].args.counterFields))
  ELSE 0

RECURSIVE ReturnedDeltas(_, _, _)
ReturnedDeltas(ps, rawId, f) ==
  IF ps = {} THEN 0
  ELSE LET p == CHOOSE q \in ps : TRUE
       IN ReturnedDelta(p, rawId, f) + ReturnedDeltas(ps \ {p}, rawId, f)

CounterDocs ==
  {generateRawId(Undefined, TSingle, "1"), generateRawId(Undefined, TShared, "1")}

\* A call names no field twice.
NamesFieldsOnce(counterFields) ==
  \A i \in 1..Len(counterFields) : \A j \in 1..Len(counterFields) :
    counterFields[i].fieldName = counterFields[j].fieldName => i = j

\* C12 as stated: from an absent document, after any incrementCounter calls
\* in any interleaving, each stored counter equals the sum of the deltas of
\* the calls that returned.
C12_CounterIsSumOfDeltas ==
  \A rawId \in CounterDocs : \A f \in {"views", "clicks"} :
    CounterValue(docs, rawId, f) = ReturnedDeltas(Procs, rawId, f)

\* The same while no returned call named a field twice.
C12_SumWhenFieldsNamedOnce ==
  (\A p \in Procs :
     res[p].op = "incrementCounter" => NamesFieldsOnce(res[p].args.counterFields))
  => C12_CounterIsSumOfDeltas

\* A call that named the field twice created the document: the field holds
\* one count, not two.
C12_IncrementLost ==
  \E p \in Procs :
    /\ res[p].op = "incrementCounter" /\ res[p].err = Undefined
    /\ ~res[p].args.initialize
    /\ ~NamesFieldsOnce(res[p].args.counterFields)
    /\ ~EsGet(res[p].before, res[p].rawId).found
    /\ CounterValue(res[p].after, res[p].rawId, "views") = 1

\* Two default increments of an absent counter by two callers give 2.
C12_TwoIncrementsGiveTwo ==
  /\ \A p \in {"p1", "p2"} :
       /\ res[p].op = "incrementCounter" /\ res[p].err = Undefined
       /\ res[p].args.type = TShared
       /\ res[p].args.counterFields = <<[fieldName |-> "views", incrementBy |-> <<>>]>>
       /\ ~res[p].args.initialize
       /\ ~EsGet(res[p].pre, res[p].rawId).found
  /\ res["p3"] = NoRes
  /\ CounterValue(docs, generateRawId(Undefined, TShared, "1"), "views") = 2

\* C13: an incrementCounter call with initialize set leaves every counter it
\* names that the document already holds at its value, and sets every
\* counter it names that the document does not hold to 0, whatever count
\* the caller gave.
C13_InitializeKeepsOrZeroes ==
  \A p \in Procs :
    LET r == res[p] IN
    (r.op = "incrementCounter" /\ r.err = Undefined /\ r.args.initialize) =>
      \A i \in 1..Len(r.args.counterFields) :
        LET f == r.args.counterFields[i].fieldName IN
        /\ HasCounter(r.after, r.rawId, f)
        /\ CounterValue(r.after, r.rawId, f) =
             (IF HasCounter(r.before, r.rawId, f)
              THEN CounterValue(r.before, r.rawId, f) ELSE 0)

\* C13 witness: a call with initialize and a count of 2 on a counter that
\* holds a value above 0 left that value.
C13_Witness ==
  \E p \in Procs :
    /\ res[p].op = "incrementCounter" /\ res[p].err = Undefined
    /\ res[p].args.initialize
    /\ res[p].args.counterFields = <<[fieldName |-> "views", incrementBy |-> <<2>>]>>
    /\ CounterValue(res[p].before, res[p].rawId, "views") > 0
    /\ CounterValue(res[p].after, res[p].rawId, "views") =
         CounterValue(res[p].before, res[p].rawId, "views")

C13_ZeroedInExistingDocumentReached ==
  \E p \in Procs :
    /\ res[p].op = "incrementCounter" /\ res[p].err = Undefined
    /\ res[p].args.initialize
    /\ EsGet(res[p].before, res[p].rawId).found
    /\ ~HasCounter(res[p].before, res[p].rawId, "clicks")
    /\ HasCounter(res[p].after, res[p].rawId, "clicks")
    /\ CounterValue(res[p].after, res[p].rawId, "clicks") = 0

C13_ZeroedInNewDocumentReached ==
  \E p \in Procs :
    /\ res[p].op = "incrementCounter" /\ res[p].err = Undefined
    /\ res[p].args.initialize
    /\ ~EsGet(res[p].before, res[p].rawId).found
    /\ HasCounter(res[p].after, res[p].rawId, "views")
    /\ CounterValue(res[p].after, res[p].rawId, "views") = 0

----------------------------------------------------------------------------
(* incrementCounter called with arguments of any shape.                     *)

JsTypes ==
  {[t |-> "string", s |-> TSingle], [t |-> "string", s |-> TShared],
   [t |-> "string", s |-> THidden], [t |-> "number", s |-> "7"]}

JsString(name) == [t |-> "string", name |-> name, nameIsString |-> TRUE]
JsField(name) == [t |-> "object", name |-> name, nameIsString |-> TRUE]
JsFieldWithoutName == [t |-> "object", name |-> "", nameIsString |-> FALSE]
JsNumber == [t |-> "number", name |-> "", nameIsString |-> FALSE]

JsCounterFields ==
  {[isArray |-> TRUE, items |-> <<JsString("views")>>],
   [isArray |-> TRUE, items |-> <<JsField("clicks"), JsString("views")>>],
   [isArray |-> FALSE, items |-> <<>>],
   [isArray |-> TRUE, items |-> <<JsNumber>>],
   [isArray |-> TRUE, items |-> <<JsString("views"), JsFieldWithoutName>>]}

NextCounterInput ==
  \E p \in {"p1"} :
    \/ /\ res[p] = NoRes
       /\ \E type \in JsTypes, counterFields \in JsCounterFields,
             ns \in {Undefined, "ns1"} :
            incrementCounterChecked(p, type, "1", counterFields, ns)
    \/ incrementCounterAfterPreflight(p)
    \/ dropResult(p)

SpecCounterInput == Init /\ [][NextCounterInput]_vars

\* The arguments the claim says are rejected.
RejectedArguments(type, counterFields) ==
  \/ type.t # "string"
  \/ ~counterFields.isArray
  \/ \E i \in 1..Len(counterFields.items) :
       \/ counterFields.items[i].t \notin {"string", "object"}
       \/ counterFields.items[i].t = "object" /\ ~counterFields.items[i].nameIsString
  \/ type.s \notin allowedTypes

\* C14: a step that is an incrementCounter call with a type that is no
\* string, with counterFields that is no array of strings and records with
\* a string fieldName, or with a type outside the allowed set, ends the
\* call with an error at once: no store request is counted and the index
\* is as it was.
C14_BadArgumentsRejectedBeforeTheStore ==
  [][\A p \in Procs : \A type \in JsTypes : \A counterFields \in JsCounterFields :
       \A ns \in {Undefined, "ns1"} :
         (/\ RejectedArguments(type, counterFields)
          /\ incrementCounterChecked(p, type, "1", counterFields, ns))
         => /\ docs' = docs
            /\ nextSeq' = nextSeq
            /\ call'[p] = Idle
            /\ res'[p].op = "incrementCounter"
            /\ res'[p].err \in {"Error", "UnsupportedType"}
            /\ res'[p].reads = 0 /\ res'[p].writes = 0
            /\ res'[p].after = res'[p].before]_vars

\* C14 witness: an array holding a record without a fieldName was rejected
\* while the object existed, which kept its counters.
C14_Witness ==
  \E p \in Procs :
    /\ res[p].op = "incrementCounter" /\ res[p].err = "Error"
    /\ "input" \in DOMAIN res[p].args
    /\ res[p].args.input.type.t = "string"
    /\ res[p].args.input.counterFields.isArray
    /\ res[p].writes = 0
    /\ docs # [k \in {} |-> NoDoc]
    /\ res[p].after = docs

C14_NonStringTypeReached ==
  \E p \in Procs :
    /\ res[p].op = "incrementCounter" /\ res[p].err = "Error"
    /\ "input" \in DOMAIN res[p].args
    /\ res[p].args.input.type.t = "number"

C14_UnsupportedTypeReached ==
  \E p \in Procs :
    /\ res[p].op = "incrementCounter" /\ res[p].err = "UnsupportedType"
    /\ res[p].writes = 0 /\ res[p].reads = 0

C14_AcceptedReached ==
  \E p \in Procs :
    /\ res[p].op = "incrementCounter" /\ res[p].err = Undefined
    /\ CounterValue(docs, res[p].rawId, "clicks") >= 1

----------------------------------------------------------------------------
(* deleteByNamespace over objects of every kind of type, in one namespace,  *)
(* in several, and in all of them.                                          *)

NextSweep ==
  \E p \in {"p1"} :
    \/ /\ res[p] = NoRes
       /\ \/ \E type \in {TSingle, TAgnostic, TShared}, ns \in {Undefined, "ns1", "ns2"},
                initialNamespaces \in {UndefinedList, <<"default">>, <<"ns1", "ns2">>,
                                       <<ALL_NAMESPACES_STRING>>} :
               create(p, type, "1", AttrA, ns, FALSE, NoVersion, initialNamespaces)
          \/ \E namespace \in {"default", "ns1", ALL_NAMESPACES_STRING} :
               deleteByNamespace(p, namespace)
    \/ dropResult(p)

SpecSweep == Init /\ [][NextSweep]_vars

\* The namespace a stored single-namespace object is of.
NamespaceOf(source) == namespaceIdToString(source.namespace)

\* What the sweep of namespace n owes to the document stored under k.
SweptAsClaimed(before, after, k, n) ==
  LET src == before[k].source IN
  IF isNamespaceAgnostic(src.type) THEN k \in DOMAIN after /\ after[k] = before[k]
  ELSE IF isSingleNamespace(src.type)
  THEN IF NamespaceOf(src) = n THEN k \notin DOMAIN after
       ELSE k \in DOMAIN after /\ after[k] = before[k]
  ELSE IF ~Includes(src.namespaces, n)
  THEN k \in DOMAIN after /\ after[k].source = src
  ELSE IF RemoveAll(src.namespaces, n) = <<>> THEN k \notin DOMAIN after
  ELSE /\ k \in DOMAIN after
       /\ after[k].source = [src EXCEPT !.namespaces = RemoveAll(src.namespaces, n)]

\* C15 as stated: deleteByNamespace(N) deletes the single-namespace objects
\* of N and the multi-namespace objects that are in N only, takes N out of
\* the list of the multi-namespace objects that are in other namespaces too,
\* and leaves every other object, and every namespace-agnostic one, as it was.
C15_SweepTakesTheNamespaceOut ==
  \A p \in Procs :
    LET r == res[p] IN
    (r.op = "deleteByNamespace" /\ r.err = Undefined) =>
      /\ DOMAIN r.after \subseteq DOMAIN r.before
      /\ \A k \in DOMAIN r.before :
           SweptAsClaimed(r.before, r.after, k, r.args.namespace)

\* The same over indexes in which no single-namespace object is stored with
\* the namespace string of the default namespace.
C15_HoldsWithoutStoredDefault ==
  \A p \in Procs :
    LET r == res[p] IN
    (/\ r.op = "deleteByNamespace" /\ r.err = Undefined
     /\ \A k \in DOMAIN r.before :
          r.before[k].source.namespace # DEFAULT_NAMESPACE_STRING) =>
      /\ DOMAIN r.after \subseteq DOMAIN r.before
      /\ \A k \in DOMAIN r.before :
           SweptAsClaimed(r.before, r.after, k, r.args.namespace)

\* The sweep of the default namespace left a single-namespace object that
\* was created in it.
C15_DefaultObjectSurvives ==
  \E p \in Procs :
    /\ res[p].op = "deleteByNamespace" /\ res[p].err = Undefined
    /\ res[p].args.namespace = DEFAULT_NAMESPACE_STRING
    /\ \E k \in DOMAIN res[p].before :
         /\ isSingleNamespace(res[p].before[k].source.type)
         /\ NamespaceOf(res[p].before[k].source) = DEFAULT_NAMESPACE_STRING
         /\ k \in DOMAIN res[p].after

C15_ListShortenedReached ==
  \E p \in Procs :
    /\ res[p].op = "deleteByNamespace" /\ res[p].err = Undefined
    /\ \E k \in DOMAIN res[p].before :
         /\ res[p].before[k].source.namespaces = <<"ns1", "ns2">>
         /\ k \in DOMAIN res[p].after
         /\ res[p].after[k].source.namespaces = <<"ns2">>

C15_SingleDeletedBesideOthersReached ==
  \E p \in Procs :
    /\ res[p].op = "deleteByNamespace" /\ res[p].err = Undefined
    /\ res[p].args.namespace = "ns1"
    /\ \E k \in DOMAIN res[p].before : \E j \in DOMAIN res[p].after :
         /\ isSingleNamespace(res[p].before[k].source.type)
         /\ k \notin DOMAIN res[p].after
         /\ isSingleNamespace(res[p].after[j].source.type)

C15_AgnosticKeptReached ==
  \E p \in Procs :
    /\ res[p].op = "deleteByNamespace" /\ res[p].err = Undefined
    /\ res[p].touched # {}
    /\ \E k \in DOMAIN res[p].after : isNamespaceAgnostic(res[p].after[k].source.type)

----------------------------------------------------------------------------
(* find: its arguments and the search request it builds                     *)

APit == [id |-> "pit"]

FindOptionsOf(type, map, namespaces, preference, pit, searchAfter, page, perPage) ==
  [type |-> type, typeToNamespacesMap |-> map, namespaces |-> namespaces,
   preference |-> preference, pit |-> pit, searchAfter |-> searchAfter,
   page |-> page, perPage |-> perPage]

\* Every combination of the options the head of find looks at, on the first
\* page; and every combination of the paging options over searches that pass.
FindOptions ==
  {FindOptionsOf(type, map, namespaces, preference, pit, NoSearchAfter, 1, 2) :
     type \in {UndefinedList, <<TSingle>>, <<THidden>>, <<TSingle, TShared>>},
     map \in {NoMap, TSingle :> <<"ns1">>},
     namespaces \in {UndefinedList, <<>>, <<"ns1">>, <<ALL_NAMESPACES_STRING>>},
     preference \in {"", "session"},
     pit \in {NoPit, APit}}
  \cup
  {FindOptionsOf(<<TSingle, TShared>>, NoMap, namespaces, "", pit, searchAfter,
                 page, perPage) :
     namespaces \in {<<"ns1">>, <<ALL_NAMESPACES_STRING>>},
     pit \in {NoPit, APit},
     searchAfter \in {NoSearchAfter, <<1>>},
     page \in {1, 2},
     perPage \in {1, 2}}

NextFind ==
  \E p \in {"p1"} :
    \/ /\ res[p] = NoRes
       /\ \/ \E type \in {TSingle, TShared}, id \in Ids, ns \in {Undefined, "ns1"} :
               create(p, type, id, AttrA, ns, FALSE, NoVersion, UndefinedList)
          \/ \E options \in FindOptions : find(p, options)
    \/ dropResult(p)

SpecFind == Init /\ [][NextFind]_vars

\* The combinations of options the head of find refuses.
RefusedOptions(o) ==
  LET typeGiven == o.type # UndefinedList
      mapGiven == o.typeToNamespacesMap # NoMap
  IN \/ ~typeGiven /\ ~mapGiven
     \/ typeGiven /\ mapGiven
     \/ o.namespaces = <<>> /\ ~mapGiven
     \/ mapGiven /\ (o.namespaces = UndefinedList \/ Len(o.namespaces) > 0)
     \/ o.preference # "" /\ o.pit # NoPit

\* C18: find fails with BadRequest, having sent no request to the store, when
\* neither or both of type and typeToNamespacesMap are given, when namespaces
\* is an empty array without typeToNamespacesMap, when typeToNamespacesMap is
\* given with absent or non-empty namespaces, and when a non-empty preference
\* is given together with a point-in-time token.
C18_BadOptionsRejectedBeforeTheStore ==
  \A p \in Procs :
    LET r == res[p] IN
    (r.op = "find" /\ RefusedOptions(r.args.options)) =>
      /\ r.err = "BadRequest"
      /\ r.request = NoObj
      /\ r.reads = 0
      /\ r.after = r.before

\* A find is refused whose only fault is a preference beside a point-in-time
\* token, over an index that holds a document it would have found.
C18_Witness ==
  \E p \in Procs :
    LET r == res[p] IN
    /\ r.op = "find"
    /\ r.args.options.type = <<TSingle>>
    /\ r.args.options.typeToNamespacesMap = NoMap
    /\ r.args.options.namespaces = <<"ns1">>
    /\ r.args.options.preference = "session"
    /\ r.args.options.pit = APit
    /\ r.err = "BadRequest"
    /\ r.reads = 0
    /\ \E k \in DOMAIN r.before : FindQuery(r.before[k], r.args.options)

\* A find with both type and typeToNamespacesMap, and an empty namespaces
\* array, is refused.
C18_BothGivenReached ==
  \E p \in Procs :
    LET r == res[p] IN
    /\ r.op = "find"
    /\ r.args.options.type = <<TSingle>>
    /\ r.args.options.typeToNamespacesMap # NoMap
    /\ r.args.options.namespaces = <<>>
    /\ r.args.options.pit = NoPit
    /\ r.err = "BadRequest"

\* A find with typeToNamespacesMap alone and an empty namespaces array
\* searches and returns a document.
C18_AcceptedMapReached ==
  \E p \in Procs :
    LET r == res[p] IN
    /\ r.op = "find"
    /\ r.args.options.type = UndefinedList
    /\ r.args.options.typeToNamespacesMap # NoMap
    /\ r.err = Undefined
    /\ r.reads = 1
    /\ Len(r.obj.saved_objects) > 0

\* C19: in every search request built by find, offset and cursor pagination
\* are mutually exclusive: with a searchAfter cursor, the request carries no
\* 'from' anywhere; without one, its offset is perPage * (page - 1).
C19_OffsetAndCursorExclusive ==
  \A p \in Procs :
    LET r == res[p] IN
    (r.op = "find" /\ r.request # NoObj) =>
      LET o == r.args.options IN
      IF o.searchAfter # NoSearchAfter
      THEN /\ r.request.body.search_after = o.searchAfter
           /\ r.request.from = NoFrom
           /\ r.request.body.from = NoFrom
      ELSE /\ r.request.from = <<o.perPage * (o.page - 1)>>
           /\ r.request.body.search_after = NoSearchAfter

\* What holds of the request: the 'from' of the query string is left out
\* with a cursor and is perPage * (page - 1) without one.
C19_QueryStringOffsetExclusive ==
  \A p \in Procs :
    LET r == res[p] IN
    (r.op = "find" /\ r.request # NoObj) =>
      LET o == r.args.options IN
      /\ r.request.body.search_after = o.searchAfter
      /\ r.request.from = IF o.searchAfter # NoSearchAfter THEN NoFrom
                          ELSE <<o.perPage * (o.page - 1)>>

\* A request with a cursor carries the offset of the second page in its body.
C19_OffsetBesideCursor ==
  \E p \in Procs :
    LET r == res[p] IN
    /\ r.op = "find"
    /\ r.request # NoObj
    /\ r.args.options.searchAfter # NoSearchAfter
    /\ r.args.options.page = 2
    /\ r.request.body.search_after # NoSearchAfter
    /\ r.request.body.from = <<r.args.options.perPage>>

\* A find without a cursor returns the second page of two hits.
C19_SecondPageReached ==
  \E p \in Procs :
    LET r == res[p] IN
    /\ r.op = "find"
    /\ r.err = Undefined
    /\ r.request # NoObj
    /\ r.args.options.searchAfter = NoSearchAfter
    /\ r.args.options.page = 2
    /\ r.obj.total = 2
    /\ Len(r.obj.saved_objects) = 1

----------------------------------------------------------------------------
(* removeReferencesTo over objects of three kinds of type whose reference   *)
(* lists hold the reference once, twice, or not at all.                     *)

Ref(name, type, id) == [name |-> name, type |-> type, id |-> id]

ReferenceLists ==
  {<<>>,
   <<Ref("a", TShared, "1")>>,
   <<Ref("a", TShared, "2"), Ref("b", TShared, "1")>>,
   <<Ref("a", TShared, "1"), Ref("b", TShared, "2"), Ref("c", TShared, "1")>>,
   <<Ref("a", TSingle, "1"), Ref("b", TShared, "1")>>}

\* An object with references, as create stores it.
Referring(type, id, ns, namespaces, references) ==
  [id |-> generateRawId(ns, type, id),
   doc |-> Stored([type |-> type, attributes |-> AttrA, namespace |-> ns,
                   namespaces |-> namespaces, references |-> references], 0)]

InitRefs ==
  /\ \E r1 \in ReferenceLists, r2 \in ReferenceLists, r3 \in ReferenceLists,
        namespaces \in {<<"ns1">>, <<"ns2">>, <<"default", "ns1">>} :
       docs = IndexOf({Referring(TSingle, "7", "ns1", UndefinedList, r1),
                       Referring(TShared, "8", Undefined, namespaces, r2),
                       Referring(TAgnostic, "9", Undefined, UndefinedList, r3)})
  /\ nextSeq = 1
  /\ call = [p \in Procs |-> Idle]
  /\ res = [p \in Procs |-> NoRes]

NextRefs ==
  \E p \in {"p1"} :
    \/ /\ res[p] = NoRes
       /\ \E type \in {TShared, TSingle}, id \in {"1", "2"}, ns \in {Undefined, "ns1"},
             failed \in SUBSET DOMAIN docs :
            removeReferencesTo(p, type, id, ns, failed)
    \/ dropResult(p)

SpecRefs == InitRefs /\ [][NextRefs]_vars

\* The object is one of those the call is about: it is of the namespace.
InScope(source, ns) ==
  \/ isNamespaceAgnostic(source.type)
  \/ isSingleNamespace(source.type) /\ source.namespace = ns
  \/ /\ isMultiNamespace(source.type)
     /\ \/ Includes(source.namespaces, namespaceIdToString(ns))
        \/ Includes(source.namespaces, ALL_NAMESPACES_STRING)

RefersTo(source, type, id) ==
  \E i \in 1..Len(source.references) :
    source.references[i].type = type /\ source.references[i].id = id

\* The entries of a list that are no reference to (type, id), in order.
RECURSIVE OtherEntries(_, _, _)
OtherEntries(references, type, id) ==
  IF references = <<>> THEN <<>>
  ELSE IF Head(references).type = type /\ Head(references).id = id
  THEN OtherEntries(Tail(references), type, id)
  ELSE <<Head(references)>> \o OtherEntries(Tail(references), type, id)

\* C16: a removeReferencesTo(type, id) that returns has taken out of every
\* object of the namespace the entries that refer to (type, id) and no
\* other entry, the others keeping their order; attributes and namespaces
\* of every object, and every object without such an entry or outside the
\* namespace, are as they were.
C16_OnlyMatchingReferencesRemoved ==
  \A p \in Procs :
    LET r == res[p] IN
    (r.op = "removeReferencesTo" /\ r.err = Undefined) =>
      /\ DOMAIN r.after = DOMAIN r.before
      /\ \A k \in DOMAIN r.before :
           LET src == r.before[k].source IN
           IF InScope(src, r.args.namespace) /\ RefersTo(src, r.args.type, r.args.id)
           THEN r.after[k].source =
                  [src EXCEPT !.references = OtherEntries(@, r.args.type, r.args.id)]
           ELSE r.after[k] = r.before[k]

\* C16 witness: the call took two of three entries out of a list and left
\* an object of another namespace with its reference.
C16_Witness ==
  \E p \in Procs :
    /\ res[p].op = "removeReferencesTo" /\ res[p].err = Undefined
    /\ \E k \in DOMAIN res[p].before :
         /\ Len(res[p].before[k].source.references) = 3
         /\ res[p].after[k].source.references = <<Ref("b", TShared, "2")>>
    /\ \E k \in DOMAIN res[p].before :
         /\ ~InScope(res[p].before[k].source, res[p].args.namespace)
         /\ RefersTo(res[p].before[k].source, res[p].args.type, res[p].args.id)
         /\ res[p].after[k] = res[p].before[k]

\* C17: removeReferencesTo fails with Conflict exactly when the sweep
\* reports a failure, whatever it has updated by then, and otherwise
\* returns the number of objects the sweep updated.
C17_AnyFailureIsAConflict ==
  \A p \in Procs :
    LET r == res[p] IN
    r.op = "removeReferencesTo" =>
      /\ r.body.failures > 0 => r.err = "Conflict" /\ r.obj = NoObj
      /\ r.body.failures = 0 =>
           /\ r.err = Undefined
           /\ r.obj.updated = r.body.updated
           /\ r.obj.updated = Cardinality(r.touched)

\* C17 witness: the sweep failed on one object after it had taken the
\* reference out of another, and the call failed with Conflict.
C17_Witness ==
  \E p \in Procs :
    /\ res[p].op = "removeReferencesTo"
    /\ res[p].err = "Conflict"
    /\ res[p].body.failures = 1
    /\ res[p].body.updated >= 1
    /\ res[p].touched # {}
    /\ \E k \in DOMAIN docs :
         RefersTo(docs[k].source, res[p].args.type, res[p].args.id)
----------------------------------------------------------------------------
(* Reads, updates and deletes while the index does not exist                *)

InitAbsent ==
  /\ docs = [k \in {} |-> NoDoc]
  /\ nextSeq = 0
  /\ call = [p \in Procs |-> Idle]
  /\ res = [p \in Procs |-> NoRes]

AbsentFindOptions ==
  {FindOptionsOf(type, NoMap, namespaces, "", pit, searchAfter, page, 2) :
     type \in {<<TSingle>>, <<THidden>>, <<TSingle, TShared>>},
     namespaces \in {UndefinedList, <<"ns1">>},
     pit \in {NoPit, APit},
     searchAfter \in {NoSearchAfter, <<1>>},
     page \in {1, 2}}

NextAbsent ==
  \E p \in {"p1", "p2"} :
    \/ /\ res[p] = NoRes
       /\ \/ \E type \in {TSingle, TAgnostic, TShared}, id \in Ids,
                ns \in {Undefined, "ns1"} :
               \/ get(p, type, id, ns)
               \/ \E upsert \in {NoAttrs, AttrA} :
                    update(p, type, id, AttrB, ns, NoVersion, upsert)
               \/ \E force \in BOOLEAN : delete(p, type, id, ns, force)
          \/ \E options \in AbsentFindOptions : find(p, options)
          \/ \E objects \in Arrays(BulkGetItems), ns \in {Undefined, "ns1"} :
               bulkGet(p, objects, ns)
    \/ dropResult(p)

SpecAbsent == InitAbsent /\ [][NextAbsent]_vars

\* The call sent a request to the store.
AskedTheStore(r) == r.reads + r.writes > 0

\* get, update and delete fail with NotFound, find returns an empty page.
UniformlyNotFound(r) ==
  /\ r.op \in {"get", "update", "delete"} => r.err = "NotFound"
  /\ r.op = "find" =>
       /\ r.err = Undefined
       /\ r.obj = [page |-> r.args.options.page, per_page |-> r.args.options.perPage,
                   total |-> 0, saved_objects |-> <<>>]

\* bulkGet returns a NotFound record for every item of an allowed type.
EveryItemNotFound(r) ==
  /\ r.err = Undefined
  /\ Len(r.slots) = Len(r.args.objects)
  /\ \A i \in 1..Len(r.args.objects) :
       r.args.objects[i].type \in allowedTypes =>
         r.slots[i] = ErrorSlot(r.args.objects[i].id, r.args.objects[i].type, "NotFound")

\* C20: while the index is absent, a call whose request the store answers 404
\* ends in a uniform not-found outcome and never in a raw store error: get,
\* update and delete fail with NotFound, find returns an empty page with total
\* 0, bulkGet returns a NotFound record for every valid item.
C20_AbsentIndexIsNotFound ==
  \A p \in Procs :
    LET r == res[p] IN
    (IndexAbsent(nextSeq) /\ r.op # "none" /\ AskedTheStore(r)) =>
      /\ r.after = r.before
      /\ UniformlyNotFound(r)
      /\ r.op = "bulkGet" => EveryItemNotFound(r)

\* What holds: the claim for get, update, delete and find, and for a bulkGet
\* that does not fail as a whole.
C20_NotFoundButForBulkGet ==
  \A p \in Procs :
    LET r == res[p] IN
    (IndexAbsent(nextSeq) /\ r.op # "none" /\ AskedTheStore(r)) =>
      /\ r.after = r.before
      /\ UniformlyNotFound(r)
      /\ r.op = "bulkGet" => (r.err = "TypeError" \/ EveryItemNotFound(r))

\* A bulkGet with a valid item fails as a whole with a TypeError over the
\* absent index.
C20_BulkGetThrows ==
  \E p \in Procs :
    LET r == res[p] IN
    /\ IndexAbsent(nextSeq)
    /\ r.op = "bulkGet"
    /\ r.reads = 1
    /\ r.err = "TypeError"
    /\ \E i \in 1..Len(r.args.objects) : r.args.objects[i].type \in allowedTypes

\* An update with an upsert document fails with NotFound over the absent
\* index and creates nothing.
C20_UpsertNotFoundReached ==
  \E p \in Procs :
    LET r == res[p] IN
    /\ IndexAbsent(nextSeq)
    /\ r.op = "update"
    /\ r.args.upsert # NoAttrs
    /\ r.writes = 1
    /\ r.err = "NotFound"
    /\ DOMAIN docs = {}

\* A find with a cursor on its second page returns the empty page.
C20_EmptyPageReached ==
  \E p \in Procs :
    LET r == res[p] IN
    /\ IndexAbsent(nextSeq)
    /\ r.op = "find"
    /\ r.reads = 1
    /\ r.args.options.page = 2
    /\ r.obj.total = 0
    /\ r.obj.saved_objects = <<>>

----------------------------------------------------------------------------
(* A point-in-time finder paging through an index that another caller      *)
(* writes to                                                                *)

InitFinder ==
  /\ docs = [k \in {} |-> NoDoc]
  /\ nextSeq \in {0, 1}
  /\ call = [p \in Procs |-> Idle]
  /\ res = [p \in Procs |-> NoRes]

NextFinder ==
  \/ /\ res["p1"] = NoRes
     /\ \E type \in {<<TSingle>>, <<THidden>>, <<TSingle, TShared>>},
           perPage \in {1, 2} :
          finderOpen("p1", type, <<"ns1">>, perPage)
  \/ \E storeFails \in BOOLEAN : finderNext("p1", storeFails)
  \/ finderClose("p1")
  \/ dropResult("p1")
  \/ /\ res["p2"] = NoRes
     /\ ~IndexAbsent(nextSeq)
     /\ \/ \E type \in {TSingle, TShared}, id \in Ids :
             create("p2", type, id, AttrA, "ns1", FALSE, NoVersion, UndefinedList)
        \/ update("p2", TSingle, "1", AttrB, "ns1", NoVersion, NoAttrs)
        \/ delete("p2", TSingle, "1", "ns1", FALSE)
  \/ dropResult("p2")

SpecFinder == InitFinder /\ [][NextFinder]_vars

\* The runs of the finder: the one under way and the one that has ended.
FinderRuns == {call[p] : p \in Procs} \cup {res[p] : p \in Procs}

\* C21: the snapshot a run of the finder opened is never closed twice, is
\* open exactly as long as it was not closed, and has been closed exactly once
\* when the iteration has ended: after the last page, after a find that
\* failed, or after the caller closed the finder.
C21_SnapshotClosedExactlyOnce ==
  /\ \A c \in FinderRuns :
       (c.op = "finder" /\ c.pit # NoPit) =>
         /\ c.pit.closes <= 1
         /\ c.pit.open <=> c.pit.closes = 0
  /\ \A p \in Procs :
       (res[p].op = "finder" /\ res[p].pit # NoPit) =>
         /\ res[p].pit.closes = 1
         /\ ~res[p].pit.open

\* A run over three objects ended after a full and a short page, its snapshot
\* closed once.
C21_Witness ==
  \E p \in Procs :
    LET r == res[p] IN
    /\ r.op = "finder"
    /\ r.err = Undefined
    /\ r.pit # NoPit
    /\ Len(r.pages) = 2
    /\ Len(r.pages[1].saved_objects) = 2
    /\ Len(r.pages[2].saved_objects) = 1
    /\ r.pit.closes = 1

\* A run ended with the error of its second find, its snapshot closed once.
C21_ClosedOnFailureReached ==
  \E p \in Procs :
    LET r == res[p] IN
    /\ r.op = "finder"
    /\ r.err = "GeneralError"
    /\ r.pit # NoPit
    /\ Len(r.pages) = 1
    /\ Len(r.requests) = 2
    /\ r.pit.closes = 1

\* A run ended after the caller closed the finder on a full page.
C21_ClosedByCallerReached ==
  \E p \in Procs :
    LET r == res[p] IN
    /\ r.op = "finder"
    /\ r.err = Undefined
    /\ r.pit # NoPit
    /\ Len(r.pages) = 1
    /\ Len(r.pages[1].saved_objects) = r.args.perPage
    /\ r.pit.closes = 1

\* The iterations the caller carries on with: the finder is asked for the
\* next page again and again.
SpecFinderFair ==
  SpecFinder /\ WF_vars(\E storeFails \in BOOLEAN : finderNext("p1", storeFails))

\* The objects of the snapshot of a run that its finds select.
FinderMatching(c) ==
  {k \in DOMAIN c.pit.docs :
     FindQuery(c.pit.docs[k],
               FindOptionsOf(c.args.type, NoMap, c.args.namespaces, "", NoPit,
                             NoSearchAfter, 1, c.args.perPage))}

\* Every page but the last one yielded is full, no find was issued after the
\* snapshot was closed, and the finds are no more than the full pages of the
\* result set and one.
PagesUntilShort(c) ==
  /\ \A i \in 1..(Len(c.pages) - 1) :
       Len(c.pages[i].saved_objects) = c.args.perPage
  /\ c.findsAfterClose = 0
  /\ Len(c.requests) <= (Cardinality(FinderMatching(c)) \div c.args.perPage) + 1

\* A run that was neither closed by the caller nor failed has ended with a
\* page shorter than perPage.
EndedOnShortPage(r) ==
  (r.err = Undefined /\ Len(r.requests) = Len(r.pages)) =>
    /\ Len(r.pages) > 0
    /\ \/ Len(r.pages[Len(r.pages)].saved_objects) < r.args.perPage
       \/ Len(r.pages) * r.args.perPage <= Cardinality(FinderMatching(r))

FinderStepsBounded ==
  \A p \in Procs :
    /\ (call[p].op = "finder" /\ call[p].pit # NoPit) => PagesUntilShort(call[p])
    /\ (res[p].op = "finder" /\ res[p].pit # NoPit) =>
         PagesUntilShort(res[p]) /\ EndedOnShortPage(res[p])

\* C22: the iteration of a finder over its snapshot terminates: every page
\* before the last is full, nothing is yielded after a page shorter than
\* perPage, no find is issued after the snapshot was closed, the number of
\* finds is bounded by the size of the result set, and every iteration the
\* caller carries on with comes to its end.
C22_IterationTerminates ==
  /\ []FinderStepsBounded
  /\ \A p \in {"p1"} : (call[p].op = "finder") ~> (call[p] = Idle)

\* A run over two objects with perPage 1 ended after two full pages and an
\* empty one.
C22_Witness ==
  \E p \in Procs :
    LET r == res[p] IN
    /\ r.op = "finder"
    /\ r.err = Undefined
    /\ r.pit # NoPit
    /\ r.args.perPage = 1
    /\ Len(r.requests) = 3
    /\ Len(r.pages) = 3
    /\ r.pages[3].saved_objects = <<>>
    /\ Cardinality(FinderMatching(r)) = 2

\* The sort value of the last hit of a page.
LastSortValue(page) == page.saved_objects[Len(page.saved_objects)].sort

\* The raw ids of the hits of the pages, in the order they were yielded.
RECURSIVE IdsOfPages(_)
IdsOfPages(pages) ==
  IF pages = <<>> THEN <<>>
  ELSE [i \in 1..Len(Head(pages).saved_objects) |-> Head(pages).saved_objects[i].id]
         \o IdsOfPages(Tail(pages))

\* Every find of the run was sent with the token of the snapshot, the first
\* one without a cursor and each later one with the sort value of the last
\* hit of the page before it.
CursorsFollowPages(c) ==
  \A i \in 1..Len(c.requests) :
    /\ c.requests[i] # NoObj
    /\ c.requests[i].body.pit = PitToken(c.pit)
    /\ c.requests[i].body.search_after =
         IF i = 1 THEN NoSearchAfter ELSE LastSortValue(c.pages[i - 1])

\* The pages of a run that came to its end by itself hold every object of
\* the snapshot that the query selects, once.
PagesCoverSnapshot(r) ==
  (r.err = Undefined /\ Len(r.pages[Len(r.pages)].saved_objects) < r.args.perPage) =>
    LET ids == IdsOfPages(r.pages) IN
    /\ {ids[i] : i \in 1..Len(ids)} = FinderMatching(r)
    /\ Len(ids) = Cardinality(FinderMatching(r))

\* C23: in a run of the finder that opened a snapshot, every find carries the
\* token of that snapshot, the first find carries no searchAfter cursor and
\* each later find the sort value of the last hit of the page before it, and
\* the pages of a run that reached the last page contain each object the
\* query selects in the snapshot exactly once.
C23_PagesFollowTheCursor ==
  \A p \in Procs :
    /\ (call[p].op = "finder" /\ call[p].pit # NoPit) => CursorsFollowPages(call[p])
    /\ (res[p].op = "finder" /\ res[p].pit # NoPit) =>
         /\ CursorsFollowPages(res[p])
         /\ PagesCoverSnapshot(res[p])

\* A run yielded the two objects of its snapshot on a full page, followed by
\* an empty one, while one of them was written again in the index itself.
C23_Witness ==
  \E p \in Procs :
    LET r == res[p] IN
    /\ r.op = "finder"
    /\ r.err = Undefined
    /\ r.pit # NoPit
    /\ Len(r.pages) = 2
    /\ Len(IdsOfPages(r.pages)) = 2
    /\ Cardinality(FinderMatching(r)) = 2
    /\ r.requests[2].body.search_after # NoSearchAfter
    /\ \E k \in FinderMatching(r) :
         k \in DOMAIN docs /\ docs[k].seq_no # r.pit.docs[k].seq_no

----------------------------------------------------------------------------
----------------------------------------------------------------------------
(* Removing spaces from a shared object                                     *)

NextSpaces ==
  \/ /\ res["p1"] = NoRes
     /\ \/ \E initialNamespaces \in {<<"ns1", "ns2">>, <<"ns1">>} :
             create("p1", TShared, "1", AttrA, Undefined, FALSE, NoVersion,
                    initialNamespaces)
        \/ \E spacesToAdd \in {<<>>, <<"ns3">>},
              spacesToRemove \in {<<"ns1">>, <<"ns2">>, <<"ns1", "ns2">>},
              ns \in {"ns1", "ns2"} :
             updateObjectsSpaces("p1", TShared, "1", spacesToAdd, spacesToRemove, ns)
  \/ updateObjectsSpacesAfterPreflight("p1")
  \/ dropResult("p1")
  \/ \E p \in {"p2", "p3"} :
       \/ res[p] = NoRes /\ \E ns \in {"ns1", "ns2", "ns3"} : get(p, TShared, "1", ns)
       \/ dropResult(p)

SpecSpaces == Init /\ [][NextSpaces]_vars

\* The call of p removed spaces from an object that was in exactly ns1 and
\* ns2 and added none, and the call of q fetched that object from the index
\* as p left it.
FetchedAfterRemoval(p, q) ==
  /\ res[p] # NoRes /\ res[q] # NoRes
  /\ res[p].op = "updateObjectsSpaces" /\ res[p].err = Undefined
  /\ res[p].args.spacesToAdd = <<>>
  /\ MultiTarget(res[p]).found
  /\ MultiTarget(res[p]).source.namespaces = <<"ns1", "ns2">>
  /\ res[q].op = "get"
  /\ res[q].args.type = res[p].args.type /\ res[q].args.id = res[p].args.id
  /\ res[q].before = res[p].after

\* C24: a shared object in exactly the spaces ns1 and ns2: once
\* updateObjectsSpaces has removed ns1 it is fetched from ns2, with ns2 as
\* its only space, and is NotFound from ns1; once both were removed it has
\* no document any more and is NotFound from every space.
C24_RemovedSpaceNotFound ==
  \A p \in Procs, q \in Procs :
    FetchedAfterRemoval(p, q) =>
      LET removed == res[p].args.spacesToRemove
          from == res[q].args.namespace
      IN
      /\ removed = <<"ns1">> =>
           /\ from = "ns2" => /\ res[q].err = Undefined
                              /\ res[q].obj.namespaces = <<"ns2">>
           /\ from = "ns1" => res[q].err = "NotFound"
      /\ removed = <<"ns1", "ns2">> =>
           /\ res[p].rawId \notin DOMAIN res[p].after
           /\ res[q].err = "NotFound"

\* ns1 was removed and a later get from ns1 found nothing.
C24_Witness ==
  /\ FetchedAfterRemoval("p1", "p2")
  /\ res["p1"].args.spacesToRemove = <<"ns1">>
  /\ res["p2"].args.namespace = "ns1"
  /\ res["p2"].err = "NotFound"

\* ns1 was removed and a later get from ns2 returned the object.
C24_FetchedFromTheOtherReached ==
  /\ FetchedAfterRemoval("p1", "p2")
  /\ res["p1"].args.spacesToRemove = <<"ns1">>
  /\ res["p2"].args.namespace = "ns2"
  /\ res["p2"].err = Undefined

\* Both spaces were removed and the object was gone.
C24_DeletedWithTheLastSpaceReached ==
  /\ FetchedAfterRemoval("p1", "p2")
  /\ res["p1"].args.spacesToRemove = <<"ns1", "ns2">>
  /\ res["p1"].post = NoDoc
  /\ res["p2"].err = "NotFound"

----------------------------------------------------------------------------
(* The reference walk                                                       *)

S1 == Ref("a", TShared, "1")
S2 == Ref("b", TShared, "2")
S3 == Ref("c", TShared, "3")
I1 == Ref("d", TIsolated, "1")
D1 == Ref("e", TSingle, "1")

\* Reference lists of the stored objects: none, a self reference, references
\* to shared, isolated and single-namespace objects, a repeated reference,
\* and a reference to an object the index does not hold (S3).
WalkReferenceLists ==
  {<<>>, <<S1>>, <<S2>>, <<I1>>, <<D1>>, <<S2, D1>>, <<S1, S2>>, <<S2, S2>>,
   <<S3>>, <<I1, S3, S1>>}

\* The index holds two shared objects, an isolated one and a single-namespace
\* one that refers to a shared object.
InitWalk ==
  /\ \E r1 \in WalkReferenceLists, r2 \in WalkReferenceLists,
        r3 \in {<<>>, <<S1>>, <<S3>>} :
       docs = IndexOf({Referring(TShared, "1", Undefined, <<"ns1">>, r1),
                       Referring(TShared, "2", Undefined, <<"ns1", "ns2">>, r2),
                       Referring(TIsolated, "1", Undefined, <<"ns2">>, r3),
                       Referring(TSingle, "1", "ns1", UndefinedList, <<S2>>)})
  /\ nextSeq = 1
  /\ call = [p \in Procs |-> Idle]
  /\ res = [p \in Procs |-> NoRes]

SeedSets ==
  {<<S1>>, <<S2>>, <<I1>>, <<D1>>, <<S3>>, <<S1, S2>>, <<D1, I1>>, <<S1, S1>>,
   <<[type |-> THidden, id |-> "1"]>>, <<>>}

NextWalk ==
  \E p \in {"p1"} :
    \/ res[p] = NoRes /\ \E objects \in SeedSets : collectMultiNamespaceReferences(p, objects)
    \/ collectRound(p)
    \/ dropResult(p)

SpecWalk == InitWalk /\ [][NextWalk]_vars

SpecWalkFair == SpecWalk /\ WF_vars(collectRound("p1"))

\* The objects one references edge away from the objects of S, over the
\* edges the collector follows.
WalkStep(d, S) ==
  S \cup {NodeKey(r) : r \in
            {e \in UNION {LET doc == EsGet(d, generateRawId(Undefined, k.type, k.id))
                          IN IF doc.found
                             THEN {doc.source.references[i] :
                                     i \in 1..Len(doc.source.references)}
                             ELSE {} : k \in S} : isMultiNamespace(e.type)}}

RECURSIVE WalkClosure(_, _)
WalkClosure(d, S) ==
  IF WalkStep(d, S) = S THEN S ELSE WalkClosure(d, WalkStep(d, S))

\* The objects reachable from the seeds through multi-namespace objects.
Reachable(d, objects) ==
  WalkClosure(d, {NodeKey(objects[i]) : i \in
                    {j \in 1..Len(objects) : isMultiNamespace(objects[j].type)}})

\* The result lists exactly the reachable objects, each once, each with the
\* spaces the index holds for it.
CollectedExactly(r) ==
  LET out == r.obj.objects IN
  /\ {NodeKey(out[i]) : i \in 1..Len(out)} = Reachable(r.before, r.args.objects)
  /\ \A i \in 1..Len(out), j \in 1..Len(out) :
       NodeKey(out[i]) = NodeKey(out[j]) => i = j
  /\ \A i \in 1..Len(out) :
       LET doc == EsGet(r.before, generateRawId(Undefined, out[i].type, out[i].id))
       IN out[i].spaces = IF doc.found THEN doc.source.namespaces ELSE <<>>

\* A walk in progress has fetched no object twice, so it has at most as many
\* rounds behind it as there are objects to reach.
WalkBounded ==
  \A p \in Procs :
    call[p].op = "collectMultiNamespaceReferences" =>
      /\ \A i \in 1..Len(call[p].visited), j \in 1..Len(call[p].visited) :
           call[p].visited[i] = call[p].visited[j] => i = j
      /\ call[p].rounds <= Cardinality(Reachable(docs, call[p].args.objects))

WalkCollected ==
  \A p \in Procs :
    (res[p] # NoRes /\ res[p].op = "collectMultiNamespaceReferences") =>
      /\ res[p].err = Undefined
      /\ CollectedExactly(res[p])

\* C25: collectMultiNamespaceReferences terminates for every seed set and
\* every reference graph, cycles included, and returns exactly the objects
\* reachable from the seeds over references between multi-namespace objects,
\* each once and with its current list of spaces.
C25_WalkCollectsTheClosure ==
  /\ [](WalkBounded /\ WalkCollected)
  /\ \A p \in {"p1"} :
       (call[p].op = "collectMultiNamespaceReferences") ~> (call[p] = Idle)

\* A walk over a cycle between the two shared objects, with an edge to a
\* single-namespace object left aside, returned both objects.
C25_Witness ==
  LET r == res["p1"] IN
  /\ r # NoRes /\ r.op = "collectMultiNamespaceReferences"
  /\ r.args.objects = <<S1>>
  /\ Includes(r.before[generateRawId(Undefined, TShared, "1")].source.references, S2)
  /\ Includes(r.before[generateRawId(Undefined, TShared, "2")].source.references, S1)
  /\ Len(r.obj.objects) = 2
  /\ r.reads = 2

----------------------------------------------------------------------------
(* Types outside the allowed set                                            *)

TypesBulkCreateItems ==
  {[type |-> t, id |-> "1", attributes |-> AttrA, version |-> NoVersion,
    initialNamespaces |-> UndefinedList] : t \in {THidden, TShared}}

TypesBulkGetItems == {[type |-> t, id |-> "1"] : t \in {THidden, TShared}}

TypesBulkUpdateItems ==
  {[type |-> t, id |-> "1", attributes |-> AttrB, version |-> NoVersion,
    namespace |-> Undefined] : t \in {THidden, TShared}}

NextTypes ==
  \E p \in {"p1"} :
    \/ /\ res[p] = NoRes
       /\ \E type \in {THidden, TShared}, ns \in {Undefined, ALL_NAMESPACES_STRING} :
            \/ \E initialNamespaces \in {UndefinedList, <<>>} :
                 create(p, type, "1", AttrA, ns, TRUE, NoVersion, initialNamespaces)
            \/ get(p, type, "1", ns)
            \/ update(p, type, "1", AttrB, ns, NoVersion, NoAttrs)
            \/ delete(p, type, "1", ns, FALSE)
            \/ incrementCounter(p, type, "1", OneCounter, ns, FALSE, NoAttrs)
    \/ /\ res[p] = NoRes
       /\ \E type \in {THidden, TShared}, ns \in {"ns1", ALL_NAMESPACES_STRING} :
            resolve(p, type, "1", ns)
    \/ /\ res[p] = NoRes
       /\ \E ns \in {Undefined, ALL_NAMESPACES_STRING} :
            \/ \E objects \in Arrays(TypesBulkCreateItems) :
                 bulkCreate(p, objects, ns, TRUE)
            \/ \E objects \in Arrays(TypesBulkGetItems) : bulkGet(p, objects, ns)
            \/ \E objects \in Arrays(TypesBulkUpdateItems) : bulkUpdate(p, objects, ns)
            \/ \E objects \in Arrays(TypesBulkGetItems) : checkConflicts(p, objects, ns)
    \/ createAfterPreflight(p)
    \/ updateAfterPreflight(p)
    \/ deleteAfterPreflight(p)
    \/ incrementCounterAfterPreflight(p)
    \/ bulkCreateAfterPreflight(p)
    \/ bulkUpdateAfterPreflight(p)
    \/ resolveGet(p)
    \/ \E ok \in BOOLEAN : resolveStats(p, ok)
    \/ dropResult(p)

SpecTypes == Init /\ [][NextTypes]_vars

\* A returned call for one object whose type is not allowed, and whose
\* arguments passed the checks the operation makes before it looks at the
\* type: create first checks options.namespace and initialNamespaces.
DisallowedCall(r) ==
  /\ r # NoRes
  /\ r.op \in {"create", "get", "update", "delete", "resolve", "incrementCounter"}
  /\ r.args.type \notin allowedTypes
  /\ r.op = "create" =>
       /\ ~normalizeNamespaceThrows(r.args.namespace)
       /\ validateInitialNamespaces(r.args.type, r.args.initialNamespaces) = Undefined

\* A returned bulk call that did not fail as a whole.
BulkAnswered(r) ==
  /\ r # NoRes
  /\ r.op \in {"bulkCreate", "bulkGet", "bulkUpdate", "checkConflicts"}
  /\ r.err = Undefined

\* The error kinds reported for the items of a type that is not allowed.
DisallowedItemErrors(r) ==
  IF r.op = "checkConflicts"
  THEN {r.slots[k].error : k \in {j \in 1..Len(r.slots) :
                                    r.slots[j].type \notin allowedTypes}}
  ELSE {r.slots[i].error : i \in {j \in 1..Len(r.args.objects) :
                                    r.args.objects[j].type \notin allowedTypes}}

\* checkConflicts reports every item of a type that is not allowed.
DisallowedItemsListed(r) ==
  r.op = "checkConflicts" =>
    Cardinality({j \in 1..Len(r.slots) : r.slots[j].type \notin allowedTypes})
      = Cardinality({j \in 1..Len(r.args.objects) :
                       r.args.objects[j].type \notin allowedTypes})

C26_BulkGetUnsupportedReached ==
  /\ BulkAnswered(res["p1"]) /\ res["p1"].op = "bulkGet"
  /\ Len(res["p1"].slots) = 2
  /\ res["p1"].slots[1].error = Undefined
  /\ res["p1"].slots[2].error = "UnsupportedType"

\* bulkUpdate answered an item of a type that is not allowed with NotFound.
C26_BulkUpdateNotFoundReached ==
  /\ BulkAnswered(res["p1"]) /\ res["p1"].op = "bulkUpdate"
  /\ DisallowedItemErrors(res["p1"]) = {"NotFound"}

\* create of a type that is not allowed threw UnsupportedType.
C26_CreateUnsupportedReached ==
  /\ DisallowedCall(res["p1"]) /\ res["p1"].op = "create"
  /\ res["p1"].err = "UnsupportedType"

----------------------------------------------------------------------------
(* The serializer round trip of a single-namespace object                   *)

\* Ids of objects, among them ids that look like prefixes of raw ids.
RoundTripIds == {"1", "ns1:dashboard:1"}

RoundTripReferences == {<<>>, <<S1, D1>>}

NextRoundTrip ==
  \/ /\ res["p1"] = NoRes
     /\ \E id \in RoundTripIds, ns \in {Undefined, "ns1"},
           initialNamespaces \in {UndefinedList, <<"default">>},
           references \in RoundTripReferences :
          createObject("p1", TSingle, id, AttrA, ns, FALSE, NoVersion,
                       initialNamespaces, references)
  \/ dropResult("p1")
  \/ /\ res["p2"] = NoRes
     /\ \E id \in RoundTripIds, ns \in {Undefined, "ns1"} : get("p2", TSingle, id, ns)
  \/ dropResult("p2")

SpecRoundTrip == Init /\ [][NextRoundTrip]_vars

\* The serializer's rawToSavedObject: the fields of a raw document as a
\* saved object, the id being the raw id without its prefix.
FromRaw(rawId, source) ==
  [id |-> trimIdPrefix(source.namespace, source.type, rawId),
   type |-> source.type,
   attributes |-> source.attributes,
   references |-> sourceReferences(source),
   namespace |-> source.namespace]

\* The object a successful create was asked to store.
CreatedObject(r) ==
  [id |-> r.args.id, type |-> r.args.type, attributes |-> r.args.attributes,
   references |-> r.args.references,
   namespace |-> IF r.args.initialNamespaces # UndefinedList
                 THEN r.args.initialNamespaces[1]
                 ELSE normalizeNamespace(r.args.namespace)]

Created(r) ==
  /\ r # NoRes /\ r.op = "create" /\ r.err = Undefined
  /\ isSingleNamespace(r.args.type)

\* The fields of a returned object that the caller of create chose.
ReturnedFields(obj) ==
  [id |-> obj.id, type |-> obj.type, attributes |-> obj.attributes,
   references |-> obj.references]

PassedFields(r) ==
  [id |-> r.args.id, type |-> r.args.type, attributes |-> r.args.attributes,
   references |-> r.args.references]

\* The call of q was a get of the document created by p, on the index as
\* create left it.
GotAfterCreate(p, q) ==
  /\ Created(res[p])
  /\ res[q] # NoRes /\ res[q].op = "get"
  /\ res[q].rawId = res[p].rawId
  /\ res[q].before = res[p].after

\* C27: the raw document create stores for a single-namespace object reads
\* back as the same id, type, attributes, references and namespace; create
\* returns the id, type, attributes and references it was passed, and so
\* does a following get.
C27_RoundTripReconstructs ==
  \A p \in Procs :
    Created(res[p]) =>
      /\ FromRaw(res[p].rawId, res[p].post.source) = CreatedObject(res[p])
      /\ ReturnedFields(res[p].obj) = PassedFields(res[p])
      /\ \A q \in Procs :
           GotAfterCreate(p, q) =>
             /\ res[q].err = Undefined
             /\ ReturnedFields(res[q].obj) = PassedFields(res[p])

\* An object with an id that looks like a raw id, with references, created
\* in a namespace and fetched from it.
C27_Witness ==
  /\ GotAfterCreate("p1", "p2")
  /\ res["p1"].args.id = "ns1:dashboard:1"
  /\ res["p1"].args.namespace = "ns1"
  /\ res["p1"].rawId = "ns1:dashboard:ns1:dashboard:1"
  /\ res["p1"].args.references = <<S1, D1>>
  /\ res["p2"].obj.references = <<S1, D1>>

----------------------------------------------------------------------------
(* The version token handed back to update                                  *)

TokenBulkUpdateItems ==
  {[type |-> t, id |-> "1", attributes |-> AttrA, version |-> NoVersion,
    namespace |-> Undefined] : t \in {TSingle, TShared}}

NextToken ==
  \/ /\ res["p1"] = NoRes
     /\ \E type \in {TSingle, TShared} :
          \/ create("p1", type, "1", AttrA, Undefined, FALSE, NoVersion, UndefinedList)
          \/ get("p1", type, "1", Undefined)
          \/ update("p1", type, "1", AttrA, Undefined, NoVersion, NoAttrs)
  \/ /\ res["p1"] = NoRes
     /\ \E objects \in Arrays(TokenBulkUpdateItems) : bulkUpdate("p1", objects, Undefined)
  \/ bulkUpdateAfterPreflight("p1")
  \/ /\ res["p2"] = NoRes
     /\ \E type \in {TSingle, TShared}, version \in Versions \ {NoVersion} :
          update("p2", type, "1", AttrB, Undefined, version, NoAttrs)
  \/ \E p \in {"p1", "p2"} : updateAfterPreflight(p) \/ dropResult(p)

SpecToken == Init /\ [][NextToken]_vars

\* The versions a completed call returned, each with the raw id of the
\* object it is the version of.  Of a bulkUpdate that updated one object
\* several times, the version of the last of these updates: the earlier
\* ones were followed by a write of the same call.
ReturnedVersions(r) ==
  IF r = NoRes \/ r.err # Undefined THEN {}
  ELSE IF r.op \in {"create", "get", "update"}
  THEN {[rawId |-> r.rawId, version |-> r.obj.version]}
  ELSE IF r.op = "bulkUpdate"
  THEN {[rawId |-> BulkItemRawId(r.op, r.args, i), version |-> r.slots[i].version] :
          i \in {j \in 1..Len(r.slots) :
                   /\ r.slots[j].error = Undefined
                   /\ \A k \in (j + 1)..Len(r.slots) :
                        \/ r.slots[k].error # Undefined
                        \/ BulkItemRawId(r.op, r.args, k)
                             # BulkItemRawId(r.op, r.args, j)}}
  ELSE {}

\* The call of q was an update that supplied a version the call of p had
\* returned for the same object, and wrote to the index as p left it.
TokenHandedBack(p, q) ==
  /\ res[q] # NoRes /\ res[q].op = "update"
  /\ res[q].writes = 1
  /\ [rawId |-> res[q].rawId, version |-> res[q].args.version]
       \in ReturnedVersions(res[p])
  /\ res[q].before = res[p].after

\* C28: a version returned by create, get, update or bulkUpdate and handed
\* unchanged to the next update of the object, nothing having been written
\* in between, is accepted, and the version of the object after that update
\* is another one.
C28_ReturnedVersionAccepted ==
  \A p \in Procs, q \in Procs :
    TokenHandedBack(p, q) =>
      /\ res[q].err = Undefined
      /\ res[q].obj.version # res[q].args.version
      /\ encodeHitVersion(res[q].post) = res[q].obj.version
      /\ ReturnedVersions(res[p]) \subseteq
           {[rawId |-> k, version |-> encodeHitVersion(res[p].after[k])] :
              k \in DOMAIN res[p].after}

\* An update took the version a bulkUpdate had returned for the object.
C28_Witness ==
  /\ TokenHandedBack("p1", "p2")
  /\ res["p1"].op = "bulkUpdate"
  /\ res["p2"].args.version = encodeVersion(2, 1)
  /\ res["p2"].obj.version = encodeVersion(3, 1)

\* An update took the version a get had returned.
C28_AfterGetReached ==
  TokenHandedBack("p1", "p2") /\ res["p1"].op = "get"

\* An update took the version a create had returned.
C28_AfterCreateReached ==
  TokenHandedBack("p1", "p2") /\ res["p1"].op = "create"

\* An update took the version an update had returned.
C28_AfterUpdateReached ==
  TokenHandedBack("p1", "p2") /\ res["p1"].op = "update"

----------------------------------------------------------------------------
(* The default namespace                                                    *)

DefaultBulkCreateItems ==
  {[type |-> TSingle, id |-> "2", attributes |-> AttrA, version |-> NoVersion,
    initialNamespaces |-> n] : n \in {UndefinedList, <<DEFAULT_NAMESPACE_STRING>>}}

NextDefault ==
  \/ /\ res["p1"] = NoRes
     /\ \E ns \in {Undefined, DEFAULT_NAMESPACE_STRING} :
          \/ \E initialNamespaces \in {UndefinedList, <<DEFAULT_NAMESPACE_STRING>>} :
               create("p1", TSingle, "1", AttrA, ns, FALSE, NoVersion,
                      initialNamespaces)
          \/ \E objects \in Arrays(DefaultBulkCreateItems) :
               bulkCreate("p1", objects, ns, FALSE)
          \/ update("p1", TSingle, "1", AttrB, ns, NoVersion, NoAttrs)
          \/ delete("p1", TSingle, "1", ns, FALSE)
  \/ dropResult("p1")
  \/ /\ res["p2"] = NoRes
     /\ \E id \in Ids, ns \in {Undefined, DEFAULT_NAMESPACE_STRING} :
          get("p2", TSingle, id, ns)
  \/ dropResult("p2")

SpecDefault == Init /\ [][NextDefault]_vars

\* A call for one object that names the default namespace, or none, in its
\* options addresses the document without a namespace prefix.
DefaultOptionAddressesNoNamespace ==
  \A p \in Procs :
    (/\ res[p] # NoRes
     /\ res[p].op \in {"get", "update", "delete"}
     /\ res[p].args.namespace \in {Undefined, DEFAULT_NAMESPACE_STRING}) =>
      res[p].rawId = generateRawId(Undefined, res[p].args.type, res[p].args.id)

\* The objects a completed create or bulkCreate wrote into the default
\* namespace, named by options.namespace when byOption, else by
\* initialNamespaces.
WrittenIntoDefault(r, byOption) ==
  IF r = NoRes \/ r.err # Undefined THEN {}
  ELSE IF r.op = "create"
  THEN {[type |-> r.args.type, id |-> r.args.id] : x \in
          {y \in {1} :
             IF byOption
             THEN /\ r.args.initialNamespaces = UndefinedList
                  /\ normalizeNamespace(r.args.namespace) = Undefined
             ELSE r.args.initialNamespaces = <<DEFAULT_NAMESPACE_STRING>>}}
  ELSE IF r.op = "bulkCreate"
  THEN {[type |-> r.args.objects[i].type, id |-> r.args.objects[i].id] : i \in
          {j \in 1..Len(r.slots) :
             /\ r.slots[j].error = Undefined
             /\ IF byOption
                THEN /\ r.args.objects[j].initialNamespaces = UndefinedList
                     /\ normalizeNamespace(r.args.namespace) = Undefined
                ELSE r.args.objects[j].initialNamespaces
                       = <<DEFAULT_NAMESPACE_STRING>>}}
  ELSE {}

\* Every get without a namespace, on the index as the call of p left it, of
\* an object that call wrote into the default namespace returns the object.
FetchableWithoutNamespace(byOption) ==
  \A p \in Procs, q \in Procs :
    (/\ res[q] # NoRes /\ res[q].op = "get"
     /\ res[q].args.namespace = Undefined
     /\ res[p] # NoRes
     /\ res[q].before = res[p].after
     /\ [type |-> res[q].args.type, id |-> res[q].args.id]
          \in WrittenIntoDefault(res[p], byOption)) =>
      res[q].err = Undefined

NoLiteralDefaultStored ==
  \A k \in DOMAIN docs :
    isSingleNamespace(docs[k].source.type) =>
      docs[k].source.namespace # DEFAULT_NAMESPACE_STRING

\* C30 as stated: the namespace 'default' in the options of a call addresses
\* the documents that no namespace addresses; no single-namespace document
\* written by create or bulkCreate carries the namespace 'default', whether
\* it came from options.namespace or from initialNamespaces; an object
\* created into the default namespace is returned by get without a
\* namespace.
C30_DefaultIsAbsent ==
  /\ DefaultOptionAddressesNoNamespace
  /\ NoLiteralDefaultStored
  /\ FetchableWithoutNamespace(TRUE)
  /\ FetchableWithoutNamespace(FALSE)

\* The part of C30 that holds: the default namespace named in
\* options.namespace is represented as absent.
C30_DefaultOptionIsAbsent ==
  /\ DefaultOptionAddressesNoNamespace
  /\ FetchableWithoutNamespace(TRUE)
  /\ \A p \in Procs :
       (/\ res[p] # NoRes /\ res[p].op = "create" /\ res[p].err = Undefined
        /\ res[p].args.initialNamespaces = UndefinedList) =>
         res[p].post.source.namespace # DEFAULT_NAMESPACE_STRING

\* An object created with initialNamespaces ['default'] is stored with the
\* literal namespace and a get without a namespace does not find it.
C30_LiteralDefaultNotFetched ==
  /\ res["p1"] # NoRes /\ res["p1"].op = "create" /\ res["p1"].err = Undefined
  /\ res["p1"].args.initialNamespaces = <<DEFAULT_NAMESPACE_STRING>>
  /\ res["p1"].post.source.namespace = DEFAULT_NAMESPACE_STRING
  /\ res["p2"] # NoRes /\ res["p2"].op = "get"
  /\ res["p2"].args.id = res["p1"].args.id
  /\ res["p2"].args.namespace = Undefined
  /\ res["p2"].before = res["p1"].after
  /\ res["p2"].err = "NotFound"

\* An object created with options.namespace 'default' was fetched without a
\* namespace.
C30_DefaultOptionFetchedReached ==
  /\ res["p1"] # NoRes /\ res["p1"].op = "create" /\ res["p1"].err = Undefined
  /\ res["p1"].args.namespace = DEFAULT_NAMESPACE_STRING
  /\ res["p1"].args.initialNamespaces = UndefinedList
  /\ res["p2"] # NoRes /\ res["p2"].op = "get"
  /\ res["p2"].args.namespace = Undefined
  /\ res["p2"].before = res["p1"].after
  /\ res["p2"].err = Undefined

----------------------------------------------------------------------------
(* The positions of the items of a bulk call in its batched requests        *)

AlignTypesAndIds ==
  {[type |-> THidden, id |-> "1"], [type |-> TSingle, id |-> "1"],
   [type |-> TShared, id |-> "1"], [type |-> TShared, id |-> "2"]}

AlignBulkCreateItems ==
  {[type |-> o.type, id |-> o.id, attributes |-> AttrA, version |-> NoVersion,
    initialNamespaces |-> UndefinedList] : o \in AlignTypesAndIds}

AlignBulkUpdateItems ==
  {[type |-> o.type, id |-> o.id, attributes |-> AttrB, version |-> NoVersion,
    namespace |-> Undefined] : o \in AlignTypesAndIds}

\* The kinds of items a bulk call tells apart.
ItemKinds == {"invalid", "valid with a preflight", "valid without a preflight"}

\* Arrays long enough to hold one item of each kind.
MixedArrays(Items) == UNION {[1..n -> Items] : n \in 0..Cardinality(ItemKinds)}

NextAlign ==
  \E p \in {"p1"} :
    \/ /\ res[p] = NoRes
       /\ \/ \E objects \in MixedArrays(AlignBulkCreateItems) :
               bulkCreate(p, objects, Undefined, TRUE)
          \/ \E objects \in MixedArrays(AlignTypesAndIds) : bulkGet(p, objects, Undefined)
          \/ \E objects \in MixedArrays(AlignBulkUpdateItems) :
               bulkUpdate(p, objects, Undefined)
          \/ \E objects \in MixedArrays(AlignTypesAndIds) :
               checkConflicts(p, objects, Undefined)
    \/ bulkCreateAfterPreflight(p)
    \/ bulkUpdateAfterPreflight(p)
    \/ dropResult(p)

SpecAlign == Init /\ [][NextAlign]_vars

\* The position item i of a returned bulk call took in the multi-get of the
\* call, or -1 when the item was not read.
MgetPosition(r, i) ==
  CASE r.op = "bulkCreate" -> bulkCreateExpectedResults(r.args.objects)[i].esRequestIndex
    [] r.op = "bulkUpdate" ->
         bulkUpdateExpectedBulkGetResults(r.args.objects)[i].esRequestIndex
    [] r.op = "bulkGet" -> bulkGetExpectedResults(r.args.objects)[i].esRequestIndex
    [] OTHER ->
         IF r.args.objects[i].type \in allowedTypes
         THEN CounterAt(i, [j \in 1..Len(r.args.objects) |->
                              r.args.objects[j].type \in allowedTypes])
         ELSE -1

\* The raw ids of the multi-get of a returned bulk call, in request order.
MgetIds(r) ==
  LET namespace == normalizeNamespace(r.args.namespace) IN
  CASE r.op = "bulkCreate" ->
         bulkCreateGetDocs(r.args.objects, namespace,
                           bulkCreateExpectedResults(r.args.objects))
    [] r.op = "bulkUpdate" ->
         bulkUpdateGetDocs(r.args.objects, namespace,
                           bulkUpdateExpectedBulkGetResults(r.args.objects))
    [] OTHER -> bulkGetDocs(r.args.objects, namespace)

\* The write actions of a returned bulkCreate or bulkUpdate, in request order,
\* and per item its position among them (-1 for an item without an action).
WritePhase(r) ==
  LET namespace == normalizeNamespace(r.args.namespace)
      bulkGetResponse == EsMget(r.before, MgetIds(r))
  IN IF r.op = "bulkCreate"
     THEN LET expectedBulk == bulkCreateExpectedBulkResults(
                                r.args.objects, namespace, r.args.overwrite,
                                bulkCreateExpectedResults(r.args.objects),
                                bulkGetResponse)
          IN [expected |-> expectedBulk,
              params |-> bulkCreateParams(expectedBulk, r.args.overwrite)]
     ELSE LET expectedBulk == bulkUpdateExpectedBulkUpdateResults(
                                r.args.objects, namespace,
                                bulkUpdateExpectedBulkGetResults(r.args.objects),
                                bulkGetResponse)
          IN [expected |-> expectedBulk,
              params |-> bulkUpdateParams(r.args.objects, expectedBulk)]

\* Every item that is read is read at its own position: the multi-get asks
\* there for the raw id of that item.
ReadsOwnMgetAnswer(r) ==
  \A i \in 1..Len(r.args.objects) :
    MgetPosition(r, i) # -1 =>
      /\ MgetPosition(r, i) + 1 \in 1..Len(MgetIds(r))
      /\ MgetIds(r)[MgetPosition(r, i) + 1]
           = generateRawId(IF r.op = "bulkUpdate"
                           THEN getNamespaceId(r.args.objects[i].namespace,
                                               normalizeNamespace(r.args.namespace))
                           ELSE normalizeNamespace(r.args.namespace),
                           r.args.objects[i].type, r.args.objects[i].id)

\* Every item that is written takes the answer of its own action: the action
\* at its position writes the raw id of that item.
TakesOwnWriteAnswer(r) ==
  r.op \in {"bulkCreate", "bulkUpdate"} =>
    \E w \in {WritePhase(r)} :
      \A i \in 1..Len(r.args.objects) :
        w.expected[i].tag = "Right" =>
          /\ w.expected[i].esRequestIndex + 1 \in 1..Len(w.params)
          /\ w.params[w.expected[i].esRequestIndex + 1].id
               = BulkItemRawId(r.op, r.args, i)

\* C31: in bulkCreate, bulkGet, bulkUpdate and checkConflicts, whatever the
\* mix of invalid items, items with a preflight and items without one, the
\* multi-get answer consulted for an item is the one of that item's own raw
\* id, the bulk answer used for an item is the one of that item's own write
\* action, and so each item gets the outcome due to it.
C31_ItemsKeepTheirRequestPositions ==
  \A p \in Procs :
    (/\ res[p] # NoRes
     /\ res[p].op \in {"bulkCreate", "bulkGet", "bulkUpdate", "checkConflicts"}
     /\ res[p].err = Undefined) =>
      /\ ReadsOwnMgetAnswer(res[p])
      /\ TakesOwnWriteAnswer(res[p])
      /\ IsBulk(res[p]) =>
           \A i \in 1..Len(res[p].args.objects) :
             BulkItemAlone(res[p], i) => SlotAnswersItem(res[p], i)

\* A bulkUpdate of an item of a hidden type, a single-namespace object and a
\* shareable object: the third item was read at position 0 of the multi-get
\* and written at position 1 of the bulk request.
C31_Witness ==
  LET r == res["p1"] IN
  /\ r # NoRes /\ r.op = "bulkUpdate" /\ r.err = Undefined
  /\ Len(r.args.objects) = 3
  /\ r.args.objects[1].type = THidden
  /\ r.args.objects[2].type = TSingle
  /\ r.args.objects[3].type = TShared /\ r.args.objects[3].id = "2"
  /\ MgetPosition(r, 3) = 0
  /\ WritePhase(r).expected[3].esRequestIndex = 1
  /\ r.slots[3].error = Undefined

\* A checkConflicts read two shareable objects behind an item of a hidden
\* type.
C31_CheckConflictsReached ==
  LET r == res["p1"] IN
  /\ r # NoRes /\ r.op = "checkConflicts" /\ r.err = Undefined
  /\ Len(r.args.objects) = 3
  /\ r.args.objects[1].type = THidden
  /\ MgetPosition(r, 2) = 0 /\ MgetPosition(r, 3) = 1
  /\ r.args.objects[2] # r.args.objects[3]

----------------------------------------------------------------------------
(* Conflicts found before a write: objects that exist, here or elsewhere    *)

ConflictTypesAndIds ==
  {[type |-> THidden, id |-> "1"], [type |-> TSingle, id |-> "1"],
   [type |-> TShared, id |-> "1"]}

ConflictBulkCreateItems ==
  {[type |-> o.type, id |-> o.id, attributes |-> AttrB, version |-> NoVersion,
    initialNamespaces |-> UndefinedList] : o \in ConflictTypesAndIds}

NextConflict ==
  \E p \in {"p1"} :
    \/ /\ res[p] = NoRes
       /\ \/ /\ ~IndexAbsent(nextSeq)
             /\ nextSeq <= MaxSeq
             /\ \/ \E type \in {TSingle, TShared}, ns \in {Undefined, "ns1"},
                      initialNamespaces \in {UndefinedList, <<"*">>} :
                     create(p, type, "1", AttrA, ns, FALSE, NoVersion, initialNamespaces)
                \/ \E objects \in Arrays(ConflictBulkCreateItems),
                      ns \in {Undefined, "ns1"}, overwrite \in BOOLEAN :
                     bulkCreate(p, objects, ns, overwrite)
          \/ \E objects \in Arrays(ConflictTypesAndIds), ns \in {Undefined, "ns1"} :
               checkConflicts(p, objects, ns)
    \/ bulkCreateAfterPreflight(p)
    \/ dropResult(p)

SpecConflict == InitFinder /\ [][NextConflict]_vars

\* The document is one the namespace sees: it is not of a multi-namespace
\* type, or its namespaces list names the namespace or '*'.
InCallersNamespace(doc, namespace) ==
  isMultiNamespace(doc.source.type) =>
    \E k \in 1..Len(doc.source.namespaces) :
      doc.source.namespaces[k] \in {namespaceIdToString(namespace), ALL_NAMESPACES_STRING}

\* The document item i of a returned bulk call addresses, as the call found
\* it.
AddressedDocument(r, i) ==
  EsGet(r.before, generateRawId(normalizeNamespace(r.args.namespace),
                                r.args.objects[i].type, r.args.objects[i].id))

\* The conflicts a checkConflicts is to report, in input order: one for each
\* object of an allowed type whose document exists.
RECURSIVE ConflictsDue(_, _)
ConflictsDue(r, n) ==
  IF n = 0 THEN <<>>
  ELSE IF /\ r.args.objects[n].type \in allowedTypes
          /\ AddressedDocument(r, n).found
  THEN Append(ConflictsDue(r, n - 1),
              [id |-> r.args.objects[n].id, type |-> r.args.objects[n].type,
               error |-> "Conflict",
               isNotOverwritable |->
                 ~InCallersNamespace(AddressedDocument(r, n),
                                     normalizeNamespace(r.args.namespace))])
  ELSE ConflictsDue(r, n - 1)

\* A bulkCreate item that addresses a shareable object living only in other
\* namespaces.
ItemExistsElsewhere(r, i) ==
  /\ BulkItemValid(r, i)
  /\ isMultiNamespace(r.args.objects[i].type)
  /\ AddressedDocument(r, i).found
  /\ ~InCallersNamespace(AddressedDocument(r, i), normalizeNamespace(r.args.namespace))

C32_BulkCreateRefusedReached ==
  LET r == res["p1"] IN
  /\ r # NoRes /\ r.op = "bulkCreate" /\ r.err = Undefined
  /\ r.args.overwrite
  /\ Len(r.slots) = 1
  /\ r.slots[1].error = "Conflict" /\ r.slots[1].isNotOverwritable
  /\ r.writes = 0
  /\ r.after = r.before

\* A checkConflicts over the absent index returned no conflict.
C32_AbsentIndexReached ==
  LET r == res["p1"] IN
  /\ r # NoRes /\ r.op = "checkConflicts" /\ r.err = Undefined
  /\ IndexAbsent(nextSeq)
  /\ r.reads = 1
  /\ r.slots = <<>>

----------------------------------------------------------------------------
(* delete of an object that is shared between namespaces                    *)

\* The delete addresses an object of a multi-namespace type that exists and
\* that the namespace of the call sees.
DeletesVisibleObject(r) ==
  /\ r # NoRes /\ r.op = "delete"
  /\ isMultiNamespace(r.args.type)
  /\ ~normalizeNamespaceThrows(r.args.namespace)
  /\ MultiTarget(r).found
  /\ InCallersNamespace(MultiTarget(r), normalizeNamespace(r.args.namespace))

\* The object is in more than one namespace, or in '*'.
SharedObject(doc) ==
  \/ Len(doc.source.namespaces) > 1
  \/ \E k \in 1..Len(doc.source.namespaces) :
       doc.source.namespaces[k] = ALL_NAMESPACES_STRING

\* C33: a delete without force of a multi-namespace object that is in more
\* than one namespace, or in '*', fails with BadRequest, sends no delete
\* request and leaves the document, its namespaces list included, as it was;
\* a delete of a multi-namespace object sends its request only when the
\* object is in a single namespace or force is set, and then removes it.
C33_SharedObjectNeedsForce ==
  \A p \in Procs :
    LET r == res[p] IN
    /\ (DeletesVisibleObject(r) /\ ~r.args.force /\ SharedObject(MultiTarget(r))) =>
         /\ r.err = "BadRequest"
         /\ r.writes = 0
         /\ r.after = r.before
         /\ docs = r.before
    /\ (r # NoRes /\ r.op = "delete" /\ isMultiNamespace(r.args.type) /\ r.writes > 0) =>
         /\ DeletesVisibleObject(r)
         /\ r.args.force \/ ~SharedObject(MultiTarget(r))
    /\ (DeletesVisibleObject(r) /\ (r.args.force \/ ~SharedObject(MultiTarget(r)))) =>
         /\ r.err = Undefined
         /\ r.writes = 1
         /\ ~EsGet(r.after, r.rawId).found

\* A delete without force from ns1 of an object that is in ns1 and ns2 failed
\* with BadRequest.
C33_Witness ==
  LET r == res["p1"] IN
  /\ DeletesVisibleObject(r)
  /\ ~r.args.force
  /\ r.args.namespace = "ns1"
  /\ MultiTarget(r).source.namespaces = <<"ns1", "ns2">>
  /\ r.err = "BadRequest"
  /\ docs = r.before

\* A delete without force of an object in '*' failed with BadRequest.
C33_EverywhereReached ==
  LET r == res["p1"] IN
  /\ DeletesVisibleObject(r)
  /\ ~r.args.force
  /\ MultiTarget(r).source.namespaces = <<ALL_NAMESPACES_STRING>>
  /\ r.err = "BadRequest"

\* A delete with force removed an object that was in two namespaces.
C33_ForcedReached ==
  LET r == res["p1"] IN
  /\ DeletesVisibleObject(r)
  /\ r.args.force
  /\ Len(MultiTarget(r).source.namespaces) = 2
  /\ r.err = Undefined
  /\ DOMAIN docs = DOMAIN r.before \ {r.rawId}

\* A delete without force removed an object that was in one namespace.
C33_SingleReached ==
  LET r == res["p1"] IN
  /\ DeletesVisibleObject(r)
  /\ ~r.args.force
  /\ MultiTarget(r).source.namespaces = <<"ns1">>
  /\ r.err = Undefined
  /\ r.writes = 1

----------------------------------------------------------------------------
(* resolve and the usage record of the legacy URL alias                     *)

NextAlias ==
  \E p \in {"p1", "p2"} :
    \/ /\ res[p] = NoRes
       /\ \E type \in {TSingle, TShared},
             ns \in (IF p = "p1" THEN {Undefined, "ns1"} ELSE {"ns1"}) :
            resolve(p, type, "1", ns)
    \/ resolveGet(p)
    \/ resolveMget(p)
    \/ \E ok \in BOOLEAN : resolveStats(p, ok)
    \/ dropResult(p)

SpecAlias == InitResolve /\ [][NextAlias]_vars

\* The alias document a resolve call addresses, in an index.
AliasOf(d, args) ==
  EsGet(d, generateRawLegacyUrlAliasId(normalizeNamespace(args.namespace),
                                       args.type, args.id))

\* The resolutions an alias document has counted.
ResolveCounter(doc) ==
  IF "resolveCounter" \in DOMAIN doc.source.attributes
  THEN doc.source.attributes.resolveCounter ELSE 0

\* This step is the first store request of a resolve call of p outside the
\* default namespace.
AliasRequested(p) == call[p] = Idle /\ call'[p].op \in {"resolveGet", "resolveMget"}

\* The first request counted the resolution on an alias that is not disabled,
\* left a disabled alias as it was, and touched no other document; the call
\* goes on to look for the target only with an alias that is not disabled.
AliasCounted(p) ==
  LET args == call'[p].args
      a == AliasOf(docs, args)
      b == AliasOf(docs', args)
  IN /\ (a.found /\ ~a.source.attributes.disabled) =>
          /\ b.found
          /\ ResolveCounter(b) = ResolveCounter(a) + 1
          /\ b.source.attributes.lastResolved = getCurrentTime(nextSeq)
          /\ \A k \in DOMAIN a.source.attributes \ {"resolveCounter", "lastResolved"} :
               b.source.attributes[k] = a.source.attributes[k]
          /\ call'[p].op = "resolveMget"
     /\ (a.found /\ a.source.attributes.disabled) =>
          /\ b.found /\ b.source = a.source
          /\ call'[p].op = "resolveGet"
     /\ ~a.found => (~b.found /\ call'[p].op = "resolveGet")
     /\ \A k \in (DOMAIN docs \cup DOMAIN docs') :
          EsGet(docs, k).found /\ EsGet(docs, k).source.type # LEGACY_URL_ALIAS_TYPE =>
            EsGet(docs', k) = EsGet(docs, k)

\* A later step of a resolve call leaves every alias as it is.
AliasesKept(p) ==
  (call[p].op \in {"resolveGet", "resolveMget", "resolveStats"} /\ call'[p] # call[p]) =>
    \A k \in DOMAIN docs :
      docs[k].source.type = LEGACY_URL_ALIAS_TYPE => EsGet(docs', k) = docs[k]

\* A resolve call that met a disabled alias ended as one without an alias:
\* with the object of the id if the namespace has it, with NotFound if not.
EndsAsWithoutAlias(r) ==
  LET a == AliasOf(r.before, r.args) IN
  (/\ normalizeNamespace(r.args.namespace) # Undefined
   /\ a.found /\ a.source.attributes.disabled) =>
     /\ ResolveCounter(a) = 0
     /\ IF ExactExists(r)
        THEN ResolvedTo(r, r.args.id, "exactMatch", Undefined)
        ELSE r.err = "NotFound" /\ r.obj = NoObj

C34_CountedTwiceReached ==
  LET r == res["p2"] IN
  /\ r # NoRes /\ r.op = "resolve" /\ r.err = Undefined
  /\ r.obj.outcome = "conflict"
  /\ ResolveCounter(AliasOf(docs, r.args)) = 2
  /\ AliasOf(docs, r.args).source.attributes.lastResolved = 2

\* A resolve met a disabled alias beside the object and its target, and
\* returned the object as an exact match.
C34_DisabledReached ==
  LET r == res["p1"] IN
  /\ r # NoRes /\ r.op = "resolve" /\ r.err = Undefined
  /\ AliasOf(docs, r.args).found
  /\ AliasOf(docs, r.args).source.attributes.disabled
  /\ r.obj.outcome = "exactMatch"
  /\ EsGet(docs, generateRawId("ns1", r.args.type, "2")).found

----------------------------------------------------------------------------
(* update and delete racing with a change of the object's spaces            *)

\* The version tokens the store has handed out so far.
IssuedVersions == {NoVersion} \cup {encodeVersion(n, 1) : n \in 1..(nextSeq - 1)}

NextMembership ==
  \/ /\ res["p1"] = NoRes
     /\ \/ create("p1", TShared, "1", AttrA, Undefined, FALSE, NoVersion, <<"ns1", "ns2">>)
        \/ \E version \in IssuedVersions, upsert \in {NoAttrs, AttrA} :
             update("p1", TShared, "1", AttrB, "ns1", version, upsert)
        \/ \E force \in BOOLEAN : delete("p1", TShared, "1", "ns1", force)
  \/ updateAfterPreflight("p1")
  \/ deleteAfterPreflight("p1")
  \/ /\ res["p2"] = NoRes
     /\ \E spacesToAdd \in {<<>>, <<"ns1">>, <<"ns3">>},
           spacesToRemove \in {<<>>, <<"ns1">>, <<"ns2">>} :
          updateObjectsSpaces("p2", TShared, "1", spacesToAdd, spacesToRemove, "ns2")
  \/ updateObjectsSpacesAfterPreflight("p2")
  \/ \E p \in {"p1", "p2"} : dropResult(p)

SpecMembership == Init /\ [][NextMembership]_vars

\* This step is the write of an update or a delete of p that had a preflight.
WritesAfterPreflight(p) == call[p].op \in {"update", "delete"} /\ call'[p] = Idle

\* The document the pending call of p addresses, as the index holds it now.
PendingTarget(p) ==
  EsGet(docs, generateRawId(Undefined, call[p].args.type, call[p].args.id))

\* The spaces of the object are not those the preflight of p read.
MembershipChanged(p) ==
  \/ ~PendingTarget(p).found
  \/ PendingTarget(p).source.namespaces # call[p].preflightResult.source.namespaces

\* C35: the write of an update or a delete issued from a namespace changes
\* the index only if the object is, at that moment, in that namespace; and if
\* the spaces of the object have changed since the preflight of the call, the
\* write fails and changes nothing, for a call with a version and for one
\* without.
C35_WriteOnlyWhileInNamespace ==
  [][\A p \in Procs :
       WritesAfterPreflight(p) =>
         /\ docs' # docs =>
              /\ PendingTarget(p).found
              /\ InCallersNamespace(PendingTarget(p),
                                    normalizeNamespace(call[p].args.namespace))
         /\ MembershipChanged(p) =>
              /\ docs' = docs
              /\ res'[p].err \in {"Conflict", "NotFound"}]_vars

\* An update without a version failed with Conflict: its object was taken out
\* of ns1 after its preflight.
C35_Witness ==
  LET r == res["p1"] IN
  /\ r # NoRes /\ r.op = "update" /\ r.err = "Conflict"
  /\ r.args.version = NoVersion
  /\ r.reads >= 1 /\ r.writes = 1
  /\ MultiTarget(r).found
  /\ MultiTarget(r).source.namespaces = <<"ns2">>
  /\ docs = r.before

\* The same for an update that carried the version it had read.
C35_WithVersionReached ==
  LET r == res["p1"] IN
  /\ r # NoRes /\ r.op = "update" /\ r.err = "Conflict"
  /\ r.args.version = encodeVersion(1, 1)
  /\ r.writes = 1
  /\ MultiTarget(r).found
  /\ MultiTarget(r).source.namespaces = <<"ns2">>

\* The same for a delete with force.
C35_DeleteReached ==
  LET r == res["p1"] IN
  /\ r # NoRes /\ r.op = "delete" /\ r.err = "Conflict"
  /\ r.args.force
  /\ r.writes = 1
  /\ MultiTarget(r).found
  /\ MultiTarget(r).source.namespaces = <<"ns2">>

\* An update went through beside a completed change of spaces that kept ns1.
C35_UpdatedReached ==
  /\ res["p1"] # NoRes /\ res["p1"].op = "update" /\ res["p1"].err = Undefined
  /\ res["p2"] # NoRes /\ res["p2"].op = "updateObjectsSpaces"
  /\ res["p2"].err = Undefined /\ res["p2"].writes = 1

----------------------------------------------------------------------------
(* An overwrite racing with a change of the object's spaces                 *)

OverwriteItem ==
  [type |-> TShared, id |-> "1", attributes |-> AttrB, version |-> NoVersion,
   initialNamespaces |-> UndefinedList]

\* The object is created while no other call is under way.
NextOverwrite ==
  \/ /\ res["p3"] = NoRes
     /\ call["p1"] = Idle /\ call["p2"] = Idle
     /\ create("p3", TShared, "1", AttrA, Undefined, FALSE, NoVersion, <<"ns1", "ns2">>)
  \/ /\ res["p1"] = NoRes
     /\ \/ create("p1", TShared, "1", AttrB, "ns1", TRUE, NoVersion, UndefinedList)
        \/ bulkCreate("p1", <<OverwriteItem>>, "ns1", TRUE)
  \/ createAfterPreflight("p1")
  \/ bulkCreateAfterPreflight("p1")
  \/ /\ res["p2"] = NoRes
     /\ \E spacesToAdd \in {<<>>, <<"ns3">>}, spacesToRemove \in {<<>>, <<"ns1">>, <<"ns2">>} :
          updateObjectsSpaces("p2", TShared, "1", spacesToAdd, spacesToRemove, "ns2")
  \/ updateObjectsSpacesAfterPreflight("p2")
  \/ \E p \in Procs : dropResult(p)

SpecOverwrite == Init /\ [][NextOverwrite]_vars

\* The call overwrote the object: a create with overwrite that returned, or a
\* bulkCreate with overwrite whose item was written.
Overwrote(r, op) ==
  /\ r # NoRes /\ r.op = op /\ r.err = Undefined
  /\ r.args.overwrite
  /\ op = "bulkCreate" => (Len(r.slots) = 1 /\ r.slots[1].error = Undefined)

\* The call changed the spaces of the object.
ChangedSpaces(u) ==
  /\ u # NoRes /\ u.op = "updateObjectsSpaces" /\ u.err = Undefined
  /\ u.writes = 1

\* The index holds the object with the spaces the change of spaces gave it.
SpaceUpdateStands(u) ==
  LET doc == EsGet(docs, generateRawId(Undefined, u.args.type, u.args.id)) IN
  doc.found /\ doc.source.namespaces = u.obj.spaces

\* C36: once an overwrite without a version (create or bulkCreate) and a
\* change of the spaces of the same object have both completed, in whichever
\* order their steps ran, the stored namespaces list is the one the change of
\* spaces wrote: the overwrite never writes back a list it read before.
C36_OverwriteKeepsTheSpaceUpdate ==
  \A p \in Procs : \A q \in Procs :
    (/\ Overwrote(res[p], "create") \/ Overwrote(res[p], "bulkCreate")
     /\ ChangedSpaces(res[q])) =>
      SpaceUpdateStands(res[q])

\* What holds: a bulkCreate with overwrite, whose write carries the version of
\* the document its preflight read, writes back the namespaces list the
\* object has at the moment of the write.
C36_BulkOverwriteKeepsTheCurrentList ==
  \A p \in Procs :
    Overwrote(res[p], "bulkCreate") =>
      LET rawId == BulkItemRawId("bulkCreate", res[p].args, 1) IN
      EsGet(res[p].before, rawId).found =>
        EsGet(res[p].after, rawId).source.namespaces
          = EsGet(res[p].before, rawId).source.namespaces

\* A create with overwrite read the list ns1, ns2, the change of spaces then
\* added ns3, and the create wrote ns1, ns2 back.
C36_ListWrittenBack ==
  /\ Overwrote(res["p1"], "create")
  /\ ChangedSpaces(res["p2"])
  /\ res["p2"].obj.spaces = <<"ns1", "ns2", "ns3">>
  /\ EsGet(docs, generateRawId(Undefined, TShared, "1")).source.namespaces
       = <<"ns1", "ns2">>

\* A bulkCreate with overwrite ran wholly after the change of spaces and kept
\* its list.
C36_BulkOverwriteAfterReached ==
  /\ Overwrote(res["p1"], "bulkCreate")
  /\ ChangedSpaces(res["p2"])
  /\ res["p2"].obj.spaces = <<"ns1", "ns2", "ns3">>
  /\ EsGet(docs, generateRawId(Undefined, TShared, "1")).seq_no
       > EsGet(res["p2"].after, generateRawId(Undefined, TShared, "1")).seq_no

\* A bulkCreate with overwrite was refused: the spaces had changed since its
\* preflight.
C36_BulkOverwriteRefusedReached ==
  /\ res["p1"] # NoRes /\ res["p1"].op = "bulkCreate" /\ res["p1"].err = Undefined
  /\ res["p1"].slots[1].error = "Conflict"
  /\ ~res["p1"].slots[1].isNotOverwritable
  /\ res["p1"].writes = 1
  /\ ChangedSpaces(res["p2"])

----------------------------------------------------------------------------
(* incrementCounter on an absent document and on an initialized one         *)

\* The counterFields arguments: a field by its name alone, a field with a
\* count, two fields, and a field named twice, without and with counts.
InitializeFieldLists ==
  {<<[fieldName |-> "views", incrementBy |-> <<>>]>>,
   <<[fieldName |-> "views", incrementBy |-> <<2>>]>>,
   <<[fieldName |-> "views", incrementBy |-> <<2>>],
     [fieldName |-> "clicks", incrementBy |-> <<>>]>>,
   <<[fieldName |-> "views", incrementBy |-> <<>>],
     [fieldName |-> "views", incrementBy |-> <<>>]>>,
   <<[fieldName |-> "views", incrementBy |-> <<2>>],
     [fieldName |-> "views", incrementBy |-> <<3>>]>>}

\* p1 increments the counters of object 1, p2 those of object 2, which it may
\* initialize first.
NextInitialize ==
  \/ /\ res["p1"] = NoRes
     /\ \E counterFields \in InitializeFieldLists :
          incrementCounter("p1", TSingle, "1", counterFields, Undefined, FALSE, NoAttrs)
  \/ /\ res["p2"] = NoRes
     /\ \E counterFields \in InitializeFieldLists, initialize \in BOOLEAN :
          incrementCounter("p2", TSingle, "2", counterFields, Undefined, initialize,
                           NoAttrs)
  \/ \E p \in {"p1", "p2"} : dropResult(p)

SpecInitialize == Init /\ [][NextInitialize]_vars

\* The names of the fields of a counterFields argument.
FieldNames(counterFields) ==
  {counterFields[i].fieldName : i \in 1..Len(counterFields)}

\* The call incremented counters and returned.
Incremented(r) ==
  /\ r # NoRes /\ r.op = "incrementCounter" /\ r.err = Undefined
  /\ ~r.args.initialize

\* The call found no document.
OnAbsent(r) == ~EsGet(r.before, r.rawId).found

\* The call found the document as an initialize with its own counterFields
\* leaves it: every named counter is there, at 0.
OnInitialized(r) ==
  /\ EsGet(r.before, r.rawId).found
  /\ DOMAIN EsGet(r.before, r.rawId).source.attributes = FieldNames(r.args.counterFields)
  /\ \A f \in FieldNames(r.args.counterFields) : CounterValue(r.before, r.rawId, f) = 0

\* The two calls left the same values in the counters they name.
SameCounters(r, s) ==
  \A f \in FieldNames(r.args.counterFields) :
    CounterValue(r.after, r.rawId, f) = CounterValue(s.after, s.rawId, f)

\* C37: for every counterFields list, also one that names a field more than
\* once, an incrementCounter on an absent document leaves the counter values
\* that the same call leaves on a document initialized with that list.
C37_AbsentIsAsInitialized ==
  \A p \in Procs : \A q \in Procs :
    (/\ Incremented(res[p]) /\ Incremented(res[q])
     /\ res[p].args.counterFields = res[q].args.counterFields
     /\ OnAbsent(res[p]) /\ OnInitialized(res[q])) =>
      SameCounters(res[p], res[q])

\* What holds: the claim for the lists that name each field once.
C37_AbsentIsAsInitializedWhenNamedOnce ==
  \A p \in Procs : \A q \in Procs :
    (/\ Incremented(res[p]) /\ Incremented(res[q])
     /\ res[p].args.counterFields = res[q].args.counterFields
     /\ Cardinality(FieldNames(res[p].args.counterFields))
          = Len(res[p].args.counterFields)
     /\ OnAbsent(res[p]) /\ OnInitialized(res[q])) =>
      SameCounters(res[p], res[q])

\* incrementCounter with views named twice left 1 on the absent document and
\* 2 on the initialized one.
C37_ValuesDiffer ==
  /\ Incremented(res["p1"]) /\ Incremented(res["p2"])
  /\ res["p1"].args.counterFields = res["p2"].args.counterFields
  /\ Len(res["p1"].args.counterFields) = 2
  /\ OnAbsent(res["p1"]) /\ OnInitialized(res["p2"])
  /\ CounterValue(docs, res["p1"].rawId, "views") = 1
  /\ CounterValue(docs, res["p2"].rawId, "views") = 2

\* Two fields named once each: both documents hold views 2 and clicks 1.
C37_TwoFieldsAgreeReached ==
  /\ Incremented(res["p1"]) /\ Incremented(res["p2"])
  /\ res["p1"].args.counterFields = res["p2"].args.counterFields
  /\ OnAbsent(res["p1"]) /\ OnInitialized(res["p2"])
  /\ CounterValue(docs, res["p1"].rawId, "views") = 2
  /\ CounterValue(docs, res["p2"].rawId, "views") = 2
  /\ CounterValue(docs, res["p1"].rawId, "clicks") = 1
  /\ CounterValue(docs, res["p2"].rawId, "clicks") = 1

----------------------------------------------------------------------------
(* update with an upsert document, on an object that does not exist         *)

NextUpsert ==
  \E p \in {"p1"} :
    \/ /\ res[p] = NoRes
       /\ \/ \E type \in {TSingle, TAgnostic, TShared, TIsolated},
                ns \in {Undefined, "ns1"}, upsert \in {NoAttrs, AttrA} :
               update(p, type, "1", AttrB, ns, NoVersion, upsert)
          \/ \E type \in {TSingle, TShared}, ns \in {"ns1", "ns2"} :
               create(p, type, "1", AttrA, ns, FALSE, NoVersion, UndefinedList)
          \/ \E type \in {TSingle, TAgnostic}, ns \in {Undefined, "ns1"} :
               delete(p, type, "1", ns, FALSE)
    \/ updateAfterPreflight(p)
    \/ dropResult(p)

SpecUpsert == Init /\ [][NextUpsert]_vars

\* An update with an upsert document whose object is not in the index.
UpsertOnAbsent(r) ==
  /\ r # NoRes /\ r.op = "update"
  /\ r.args.upsert # NoAttrs
  /\ r.args.type \in allowedTypes
  /\ ~EsGet(r.before, generateRawId(normalizeNamespace(r.args.namespace),
                                    r.args.type, r.args.id)).found

\* The call created, and nothing else, the document of its object in its own
\* namespace, with the upsert attributes.
CreatedFromUpsert(r) ==
  LET namespace == normalizeNamespace(r.args.namespace)
      rawId == generateRawId(namespace, r.args.type, r.args.id)
      doc == EsGet(r.after, rawId)
  IN /\ r.err = Undefined
     /\ DOMAIN r.after = DOMAIN r.before \cup {rawId}
     /\ \A k \in DOMAIN r.before : r.after[k] = r.before[k]
     /\ doc.found
     /\ doc.source.type = r.args.type
     /\ doc.source.attributes = r.args.upsert
     /\ doc.source.namespaces = UndefinedList
     /\ doc.source.namespace
          = (IF isSingleNamespace(r.args.type) THEN namespace ELSE Undefined)
     /\ isSingleNamespace(r.args.type) =>
          rawId = (IF namespace = Undefined THEN "" ELSE namespace \o ":")
                    \o r.args.type \o ":" \o r.args.id

\* C38: an update with an upsert document of an object that does not exist
\* fails with NotFound at its preflight read, without a write and without a
\* new document, when the type is multi-namespace; when the type is
\* single-namespace or namespace-agnostic it creates the document with the
\* upsert attributes in the namespace of the call.
C38_UpsertCreatesUnlessMultiNamespace ==
  \A p \in Procs :
    LET r == res[p] IN
    UpsertOnAbsent(r) =>
      IF isMultiNamespace(r.args.type)
      THEN /\ r.err = "NotFound"
           /\ r.reads = 1 /\ r.writes = 0
           /\ r.after = r.before
           /\ docs = r.before
      ELSE CreatedFromUpsert(r)

\* An update with an upsert document of a shareable object that does not
\* exist failed with NotFound on the empty index.
C38_Witness ==
  LET r == res["p1"] IN
  /\ UpsertOnAbsent(r)
  /\ r.args.type = TShared
  /\ r.err = "NotFound"
  /\ DOMAIN docs = {}

\* The same call created the single-namespace object in ns1.
C38_CreatedInNamespaceReached ==
  LET r == res["p1"] IN
  /\ UpsertOnAbsent(r)
  /\ r.args.type = TSingle /\ r.args.namespace = "ns1"
  /\ r.err = Undefined
  /\ EsGet(docs, "ns1:dashboard:1").found
  /\ EsGet(docs, "ns1:dashboard:1").source.attributes = AttrA

\* The same call created the namespace-agnostic object.
C38_CreatedAgnosticReached ==
  LET r == res["p1"] IN
  /\ UpsertOnAbsent(r)
  /\ r.args.type = TAgnostic
  /\ r.err = Undefined
  /\ EsGet(docs, "globaltype:1").found

----------------------------------------------------------------------------
(* create and bulkCreate without overwrite, on an id that is taken          *)

ExistsBulkCreateItems ==
  {[type |-> type, id |-> "1", attributes |-> AttrB, version |-> NoVersion,
    initialNamespaces |-> UndefinedList] : type \in {TSingle, TShared}}

NextExists ==
  \E p \in {"p1"} :
    \/ /\ res[p] = NoRes
       /\ \/ \E type \in {TSingle, TShared}, ns \in {Undefined, "ns1"},
                overwrite \in BOOLEAN :
               createObject(p, type, "1", IF overwrite THEN AttrA ELSE AttrB, ns,
                            overwrite, NoVersion, UndefinedList,
                            IF overwrite THEN <<S1, D1>> ELSE <<>>)
          \/ \E objects \in Arrays(ExistsBulkCreateItems), ns \in {Undefined, "ns1"} :
               bulkCreate(p, objects, ns, FALSE)
    \/ createAfterPreflight(p)
    \/ bulkCreateAfterPreflight(p)
    \/ dropResult(p)

SpecExists == Init /\ [][NextExists]_vars

\* A create without overwrite whose raw id is taken.
CreateOnTaken(r) ==
  /\ r # NoRes /\ r.op = "create"
  /\ ~r.args.overwrite
  /\ r.args.type \in allowedTypes
  /\ EsGet(r.before, OwnRawId(r)).found

\* Item i of a bulkCreate without overwrite whose raw id was taken when the
\* bulk request was sent.
ItemOnTaken(r, i) ==
  /\ r # NoRes /\ r.op = "bulkCreate" /\ r.err = Undefined
  /\ ~r.args.overwrite
  /\ BulkItemValid(r, i)
  /\ EsGet(r.before, BulkItemRawId(r.op, r.args, i)).found

\* C39: a create without overwrite of an id whose document exists fails with
\* Conflict, and the item of a bulkCreate without overwrite gets a Conflict
\* in its slot; the existing document (its attributes, references, namespaces
\* and version) is the same afterwards.
C39_TakenIdIsAConflict ==
  \A p \in Procs :
    LET r == res[p] IN
    /\ CreateOnTaken(r) =>
         /\ r.err = "Conflict"
         /\ r.after = r.before
         /\ docs = r.before
    /\ \A i \in 1..(IF r # NoRes /\ r.op = "bulkCreate" THEN Len(r.args.objects) ELSE 0) :
         ItemOnTaken(r, i) =>
           /\ r.slots[i].error = "Conflict"
           /\ r.slots[i].id = r.args.objects[i].id
           /\ r.slots[i].type = r.args.objects[i].type
           /\ EsGet(r.after, BulkItemRawId(r.op, r.args, i))
                = EsGet(r.before, BulkItemRawId(r.op, r.args, i))
           /\ EsGet(docs, BulkItemRawId(r.op, r.args, i))
                = EsGet(r.before, BulkItemRawId(r.op, r.args, i))

\* A create without overwrite failed with Conflict on an object that holds
\* references and other attributes than those of the call.  (In this
\* specification the creates with overwrite carry the attributes A and
\* references, those without carry the attributes B.)
C39_Witness ==
  LET r == res["p1"] IN
  /\ CreateOnTaken(r)
  /\ r.err = "Conflict"
  /\ r.args.attributes = AttrB
  /\ EsGet(docs, OwnRawId(r)).source.attributes = AttrA
  /\ EsGet(docs, OwnRawId(r)).source.references = <<S1, D1>>

\* A bulkCreate without overwrite created its second item beside the Conflict
\* of its first.
C39_ItemConflictReached ==
  LET r == res["p1"] IN
  /\ r # NoRes /\ r.op = "bulkCreate" /\ Len(r.args.objects) = 2
  /\ r.args.objects[1].type = TSingle
  /\ ItemOnTaken(r, 1)
  /\ r.slots[1].error = "Conflict"
  /\ r.slots[2].error = Undefined
  /\ r.writes = 1

\* The same for a shareable object, read by the preflight of the bulkCreate.
C39_SharedItemConflictReached ==
  LET r == res["p1"] IN
  /\ r # NoRes /\ r.op = "bulkCreate" /\ Len(r.args.objects) = 1
  /\ ItemOnTaken(r, 1)
  /\ r.args.objects[1].type = TShared
  /\ r.reads = 1
  /\ r.slots[1].error = "Conflict"
  /\ ~r.slots[1].isNotOverwritable

----------------------------------------------------------------------------
(* RulesClient: the API key of a rule                                       *)
(* (x-pack/plugins/alerting/server/rules_client/rules_client.ts)            *)

\* The one rule the callers work on, and the rule's saved object.
RuleRawId == "alert:1"
NullKey == "null"
RuleSource(apiKey, enabled, scheduledTaskId) ==
  [attributes |-> [apiKey |-> apiKey, enabled |-> enabled,
                   scheduledTaskId |-> scheduledTaskId]]

\* The answer of the injected createAPIKey to the call of p: a key nobody
\* holds yet, or no key where API keys are switched off.
KeyIssuedTo == [p1 |-> "key1", p2 |-> "key2", p3 |-> "key3"]
CreateAPIKeyAnswers(p) ==
  {[apiKeysEnabled |-> TRUE, result |-> KeyIssuedTo[p]],
   [apiKeysEnabled |-> FALSE, result |-> NullKey],
   [apiKeysEnabled |-> FALSE, result |-> "error"]}
CreateAPIKeyFails(answer) == answer.result = "error"
NoAPIKeyResult == [apiKeysEnabled |-> FALSE, result |-> NullKey]

apiKeyAsAlertAttributes(apiKey) ==
  IF apiKey # NoAPIKeyResult /\ apiKey.apiKeysEnabled
  THEN [apiKey |-> apiKey.result]
  ELSE [apiKey |-> NullKey]

\* The actions of a rule: none, some of a group the rule type has, or some
\* of a group it has not.
RuleActions == {"none", "valid", "invalidGroup"}
validateActions(actions) == actions # "invalidGroup"

\* The pending-invalidation object written for a key.
PendingInvalidationId ==
  [key0 |-> "api_key_pending_invalidation:key0",
   key1 |-> "api_key_pending_invalidation:key1",
   key2 |-> "api_key_pending_invalidation:key2",
   key3 |-> "api_key_pending_invalidation:key3"]

\* markApiKeyForInvalidation: [docs, seq] after the key is noted for
\* invalidation; it notes nothing for null and never throws.
markApiKeyForInvalidation(d, seq, apiKey) ==
  IF apiKey = NullKey THEN [docs |-> d, seq |-> seq]
  ELSE LET r == EsIndex(d, seq, PendingInvalidationId[apiKey],
                        [attributes |-> [apiKeyId |-> apiKey]], NoVP)
       IN [docs |-> r.docs, seq |-> r.seq]

\* What a call of the RulesClient leaves in res: the error it threw (or
\* Undefined), the key createAPIKey gave it, and the index as it left it.
RulesResult(op, args, err, apiKey, d2) ==
  [op |-> op, args |-> args, err |-> err, createdAPIKey |-> apiKey, after |-> d2]

RulesThrow(p, op, args, err, apiKey, d2, s2) ==
  Finish(p, RulesResult(op, args, err, apiKey, d2), d2, s2)

\* The call of p goes on to its next step with c as its local state.
RulesStep(p, c, d2, s2) ==
  /\ call' = [call EXCEPT ![p] = c]
  /\ docs' = d2
  /\ nextSeq' = s2
  /\ UNCHANGED res

RuleVersion(doc) == [if_seq_no |-> doc.seq_no, if_primary_term |-> doc.primary_term]

\* create (lines 245-375): the key is created first, then the actions are
\* validated, the rule is saved, its task is scheduled and the task id is
\* written to the rule.
rulesClientCreate(p) ==
  \/ /\ call[p] = Idle
     /\ res[p] = NoRes
     /\ \E enabled \in BOOLEAN, actions \in RuleActions,
           answer \in CreateAPIKeyAnswers(p) :
          LET args == [id |-> "1", enabled |-> enabled, actions |-> actions]
              createdAPIKey == IF enabled THEN answer ELSE NoAPIKeyResult
              apiKey == apiKeyAsAlertAttributes(createdAPIKey).apiKey
          IN IF enabled /\ CreateAPIKeyFails(answer)
             THEN RulesThrow(p, "create", args, "BadRequest", NullKey, docs, nextSeq)
             ELSE IF ~validateActions(actions)
             THEN RulesThrow(p, "create", args, "BadRequest", apiKey, docs, nextSeq)
             ELSE Pend(p, [op |-> "create", step |-> "save", args |-> args,
                           apiKey |-> apiKey])
  \/ /\ call[p] # Idle
     /\ call[p].op = "create"
     /\ call[p].step = "save"
     /\ LET c == call[p]
            w == EsCreate(docs, nextSeq, RuleRawId,
                          RuleSource(c.apiKey, c.args.enabled, Undefined))
            m == markApiKeyForInvalidation(docs, nextSeq, c.apiKey)
        IN IF w.status = 409
           THEN RulesThrow(p, "create", c.args, "Conflict", c.apiKey, m.docs, m.seq)
           ELSE IF c.args.enabled
           THEN RulesStep(p, [c EXCEPT !.step = "schedule"], w.docs, w.seq)
           ELSE Finish(p, RulesResult("create", c.args, Undefined, c.apiKey, w.docs),
                       w.docs, w.seq)
  \/ /\ call[p] # Idle
     /\ call[p].op = "create"
     /\ call[p].step = "schedule"
     /\ \E scheduled \in BOOLEAN :
          LET c == call[p]
              cleanup == EsDelete(docs, nextSeq, RuleRawId, NoVP)
          IN IF scheduled
             THEN RulesStep(p, [c EXCEPT !.step = "taskId"], docs, nextSeq)
             ELSE RulesThrow(p, "create", c.args, "TaskManagerError", c.apiKey,
                             cleanup.docs, cleanup.seq)
  \/ /\ call[p] # Idle
     /\ call[p].op = "create"
     /\ call[p].step = "taskId"
     /\ \E answered \in BOOLEAN :
          LET c == call[p]
              w == EsUpdate(docs, nextSeq, RuleRawId, [scheduledTaskId |-> "task"],
                            NoDoc, NoVP)
          IN IF answered /\ w.status = 200
             THEN Finish(p, RulesResult("create", c.args, Undefined, c.apiKey, w.docs),
                         w.docs, w.seq)
             ELSE RulesThrow(p, "create", c.args, "GeneralError", c.apiKey,
                             docs, nextSeq)

\* update and updateAlert (lines 676-842): the actions are validated before
\* the key is created; the rule is then saved over the version that was read.
rulesClientUpdate(p) ==
  \/ /\ call[p] = Idle
     /\ res[p] = NoRes
     /\ \E actions \in RuleActions, answer \in CreateAPIKeyAnswers(p) :
          LET args == [id |-> "1", actions |-> actions]
              alertSavedObject == EsGet(docs, RuleRawId)
              attributes == alertSavedObject.source.attributes
              createdAPIKey == IF attributes.enabled THEN answer ELSE NoAPIKeyResult
          IN IF ~alertSavedObject.found
             THEN RulesThrow(p, "update", args, "NotFound", NullKey, docs, nextSeq)
             ELSE IF ~validateActions(actions)
             THEN RulesThrow(p, "update", args, "BadRequest", NullKey, docs, nextSeq)
             ELSE IF attributes.enabled /\ CreateAPIKeyFails(answer)
             THEN RulesThrow(p, "update", args, "BadRequest", NullKey, docs, nextSeq)
             ELSE Pend(p, [op |-> "update", step |-> "save", args |-> args,
                           apiKey |-> apiKeyAsAlertAttributes(createdAPIKey).apiKey,
                           attributes |-> attributes,
                           version |-> RuleVersion(alertSavedObject)])
  \/ /\ call[p] # Idle
     /\ call[p].op = "update"
     /\ call[p].step = "save"
     /\ LET c == call[p]
            w == EsIndex(docs, nextSeq, RuleRawId,
                         [attributes |-> [c.attributes EXCEPT !.apiKey = c.apiKey]],
                         c.version)
            failed == markApiKeyForInvalidation(docs, nextSeq, c.apiKey)
            done == markApiKeyForInvalidation(w.docs, w.seq, c.attributes.apiKey)
        IN IF w.status = 409
           THEN RulesThrow(p, "update", c.args, "Conflict", c.apiKey,
                           failed.docs, failed.seq)
           ELSE Finish(p, RulesResult("update", c.args, Undefined, c.apiKey, done.docs),
                       done.docs, done.seq)

\* enableWithOCC (lines 972-1080): a rule that is disabled gets a new key,
\* is saved as enabled over the version that was read, and is scheduled.
enableWithOCC(p) ==
  \/ /\ call[p] = Idle
     /\ res[p] = NoRes
     /\ \E answer \in CreateAPIKeyAnswers(p) :
          LET args == [id |-> "1"]
              decryptedAlert == EsGet(docs, RuleRawId)
              attributes == decryptedAlert.source.attributes
          IN IF ~decryptedAlert.found
             THEN RulesThrow(p, "enable", args, "NotFound", NullKey, docs, nextSeq)
             ELSE IF attributes.enabled
             THEN Finish(p, RulesResult("enable", args, Undefined, NullKey, docs),
                         docs, nextSeq)
             ELSE IF CreateAPIKeyFails(answer)
             THEN RulesThrow(p, "enable", args, "BadRequest", NullKey, docs, nextSeq)
             ELSE Pend(p, [op |-> "enable", step |-> "save", args |-> args,
                           apiKey |-> apiKeyAsAlertAttributes(answer).apiKey,
                           attributes |-> attributes,
                           version |-> RuleVersion(decryptedAlert)])
  \/ /\ call[p] # Idle
     /\ call[p].op = "enable"
     /\ call[p].step = "save"
     /\ LET c == call[p]
            w == EsUpdate(docs, nextSeq, RuleRawId,
                          [apiKey |-> c.apiKey, enabled |-> TRUE], NoDoc, c.version)
            failed == markApiKeyForInvalidation(docs, nextSeq, c.apiKey)
        IN IF w.status # 200
           THEN RulesThrow(p, "enable", c.args,
                           IF w.status = 409 THEN "Conflict" ELSE "NotFound",
                           c.apiKey, failed.docs, failed.seq)
           ELSE RulesStep(p, [c EXCEPT !.step = "schedule"], w.docs, w.seq)
  \/ /\ call[p] # Idle
     /\ call[p].op = "enable"
     /\ call[p].step = "schedule"
     /\ \E scheduled \in BOOLEAN :
          LET c == call[p]
              w == EsUpdate(docs, nextSeq, RuleRawId, [scheduledTaskId |-> "task"],
                            NoDoc, NoVP)
              done == markApiKeyForInvalidation(w.docs, w.seq, c.attributes.apiKey)
          IN IF ~scheduled
             THEN RulesThrow(p, "enable", c.args, "TaskManagerError", c.apiKey,
                             docs, nextSeq)
             ELSE IF w.status # 200
             THEN RulesThrow(p, "enable", c.args, "NotFound", c.apiKey, docs, nextSeq)
             ELSE Finish(p, RulesResult("enable", c.args, Undefined, c.apiKey, done.docs),
                         done.docs, done.seq)

\* updateApiKeyWithOCC (lines 867-962): the key is created, the rule type is
\* checked to be enabled, and the rule is saved over the version that was read.
updateApiKeyWithOCC(p) ==
  \/ /\ call[p] = Idle
     /\ res[p] = NoRes
     /\ \E answer \in CreateAPIKeyAnswers(p), ruleTypeEnabled \in BOOLEAN :
          LET args == [id |-> "1", ruleTypeEnabled |-> ruleTypeEnabled]
              decryptedAlert == EsGet(docs, RuleRawId)
              apiKey == apiKeyAsAlertAttributes(answer).apiKey
          IN IF ~decryptedAlert.found
             THEN RulesThrow(p, "updateApiKey", args, "NotFound", NullKey, docs, nextSeq)
             ELSE IF CreateAPIKeyFails(answer)
             THEN RulesThrow(p, "updateApiKey", args, "BadRequest", NullKey,
                             docs, nextSeq)
             ELSE IF ~ruleTypeEnabled
             THEN RulesThrow(p, "updateApiKey", args, "Forbidden", apiKey,
                             docs, nextSeq)
             ELSE Pend(p, [op |-> "updateApiKey", step |-> "save", args |-> args,
                           apiKey |-> apiKey,
                           attributes |-> decryptedAlert.source.attributes,
                           version |-> RuleVersion(decryptedAlert)])
  \/ /\ call[p] # Idle
     /\ call[p].op = "updateApiKey"
     /\ call[p].step = "save"
     /\ LET c == call[p]
            w == EsUpdate(docs, nextSeq, RuleRawId, [apiKey |-> c.apiKey], NoDoc,
                          c.version)
            failed == markApiKeyForInvalidation(docs, nextSeq, c.apiKey)
            done == markApiKeyForInvalidation(w.docs, w.seq, c.attributes.apiKey)
        IN IF w.status # 200
           THEN RulesThrow(p, "updateApiKey", c.args,
                           IF w.status = 409 THEN "Conflict" ELSE "NotFound",
                           c.apiKey, failed.docs, failed.seq)
           ELSE Finish(p, RulesResult("updateApiKey", c.args, Undefined, c.apiKey,
                                      done.docs),
                       done.docs, done.seq)

\* The rule is absent, or stored enabled with its key, or stored disabled.
InitRules ==
  /\ docs \in {[k \in {} |-> NoDoc],
               IndexOf({[id |-> RuleRawId,
                         doc |-> Stored(RuleSource("key0", TRUE, "task"), 1)]}),
               IndexOf({[id |-> RuleRawId,
                         doc |-> Stored(RuleSource(NullKey, FALSE, Undefined), 1)]})}
  /\ nextSeq = 2
  /\ call = [p \in Procs |-> Idle]
  /\ res = [p \in Procs |-> NoRes]

NextRules ==
  \E p \in {"p1", "p2"} :
    \/ rulesClientCreate(p)
    \/ rulesClientUpdate(p)
    \/ enableWithOCC(p)
    \/ updateApiKeyWithOCC(p)

SpecRules == InitRules /\ [][NextRules]_vars

\* The call of p failed after createAPIKey had given it a key.
FailedWithNewKey(p) ==
  /\ res[p] # NoRes
  /\ res[p].err # Undefined
  /\ res[p].createdAPIKey # NullKey

KeyOnRule(d, apiKey) ==
  /\ EsGet(d, RuleRawId).found
  /\ EsGet(d, RuleRawId).source.attributes.apiKey = apiKey

KeyMarked(d, apiKey) == EsGet(d, PendingInvalidationId[apiKey]).found

\* The new key of the failed call of p is neither on the rule nor marked.
KeyLeftBehind(p) ==
  /\ FailedWithNewKey(p)
  /\ ~KeyOnRule(res[p].after, res[p].createdAPIKey)
  /\ ~KeyMarked(res[p].after, res[p].createdAPIKey)

\* C40: a call of create, update, enable or updateApiKey that fails after it
\* created a new API key leaves that key stored on the rule or marked for
\* invalidation.
C40_FailedCallLeavesNoNewKeyBehind ==
  \A p \in Procs : ~KeyLeftBehind(p)

\* C40, what the code does: a new key is left behind only by create, when the
\* actions are refused or the task is not scheduled, and by updateApiKey,
\* when the rule type is not enabled; update and enable leave none, and a
\* refused save of the rule marks the key in all four.
C40_KeyLeftBehindOnlyOutsideTheSave ==
  \A p \in Procs :
    /\ KeyLeftBehind(p) =>
         \/ res[p].op = "create" /\ res[p].err \in {"BadRequest", "TaskManagerError"}
         \/ res[p].op = "updateApiKey" /\ res[p].err = "Forbidden"
    /\ (FailedWithNewKey(p) /\ res[p].err = "Conflict") =>
         KeyMarked(res[p].after, res[p].createdAPIKey)

\* create fails on its actions after the key was created, and the key is
\* on no rule and not marked.
C40_KeyLeftBehindByCreate ==
  \E p \in Procs :
    /\ KeyLeftBehind(p)
    /\ res[p].op = "create"
    /\ res[p].args.actions = "invalidGroup"

C40_ScheduleFailureReached ==
  \E p \in Procs :
    /\ KeyLeftBehind(p)
    /\ res[p].op = "create"
    /\ res[p].err = "TaskManagerError"

C40_UpdateApiKeyReached ==
  \E p \in Procs :
    /\ KeyLeftBehind(p)
    /\ res[p].op = "updateApiKey"

C40_MarkedOnConflictReached ==
  \E p \in Procs :
    /\ FailedWithNewKey(p)
    /\ res[p].op \in {"update", "enable"}
    /\ res[p].err = "Conflict"
    /\ KeyMarked(res[p].after, res[p].createdAPIKey)

C40_UpdateApiKeyRefusedReached ==
  \E p \in Procs :
    /\ FailedWithNewKey(p)
    /\ res[p].op = "updateApiKey"
    /\ res[p].err = "Conflict"
    /\ KeyMarked(res[p].after, res[p].createdAPIKey)

C40_KeyStoredReached ==
  \E p \in Procs :
    /\ FailedWithNewKey(p)
    /\ res[p].op \in {"create", "enable"}
    /\ KeyOnRule(res[p].after, res[p].createdAPIKey)

Next ==
  \/ NextVersion
  \/ NextRace
  \/ NextBulk
  \/ NextMulti
  \/ NextNs
  \/ NextResolve
  \/ NextCounter
  \/ NextCounterInput
  \/ NextSweep
  \/ NextRefs
  \/ NextFind
  \/ NextAbsent
  \/ NextFinder
  \/ NextSpaces
  \/ NextWalk
  \/ NextTypes
  \/ NextRoundTrip
  \/ NextToken
  \/ NextDefault
  \/ NextAlign
  \/ NextConflict
  \/ NextAlias
  \/ NextMembership
  \/ NextOverwrite
  \/ NextInitialize
  \/ NextUpsert
  \/ NextExists
  \/ NextRules

Spec == Init /\ [][Next]_vars

====
